---- MODULE Spec2Model ----
(***************************************************************************)
(* The static performance-analysis toolkit: the orchestrating runner       *)
(* (run-performance-analysis.js), PerformanceAnalyzer                      *)
(* (performance-analyzer.js) and BundleAnalyzer (bundle-analyzer.js).      *)
(*                                                                         *)
(* One run of runComplete is a single thread of control; pc is its         *)
(* position.  The project directory the run operates against (cwd) is env. *)
(*                                                                         *)
(* Representation                                                          *)
(*   - a file name is the sequence of its dot-separated segments:          *)
(*     <<"main","js">> is main.js, <<"","parcelrc">> is .parcelrc;         *)
(*   - a path is a sequence of names; an absolute path starts with the     *)
(*     name of the project root;                                           *)
(*   - a JavaScript value that may be absent (null, undefined, {}) is a    *)
(*     sequence of length 0 or 1: None or Some(v);                         *)
(*   - a call that may throw returns [threw |-> BOOLEAN, ...].             *)
(***************************************************************************)
EXTENDS Integers, Sequences, FiniteSets, TLC

VARIABLES
  options,    \* PerformanceAnalysisRunner.options
  env,        \* the project directory: file tree, manifest, writability
  pc,         \* position of the run
  perf,       \* PerformanceAnalyzer.results
  bundle,     \* BundleAnalyzer.results
  results,    \* the results object of runComplete
  written,    \* names of the files written to the project directory
  stderr,     \* lines printed with console.error
  topRecs,    \* the "Top Recommendations" printed by outputConsole
  ran,        \* the phases entered so far, in order
  exitCode,   \* None while the process runs, Some(code) once it has exited
  monitor,    \* the PerformanceMonitor of a page (performance-monitor.js)
  browser,    \* the page the monitor runs in: listeners, observers, timers
  chat,       \* the state of the Chat page component (Chat.js)
  employees,  \* the Employee collection and the requests to /api/employees
  aiChat      \* the ChatMessage collection and the requests to /api/chat/ai-chat

\* the state of a run of the analysis runner, and the state of the web
\* application, which the runner never touches
analysis == <<options, env, pc, perf, bundle, results, written, stderr, topRecs, ran, exitCode>>
application == <<monitor, browser, chat, employees, aiChat>>

vars == <<analysis, application>>

None == <<>>
Some(v) == <<v>>
IsSome(o) == o # <<>>
Get(o) == o[1]

Last(s) == s[Len(s)]

Min(a, b) == IF a < b THEN a ELSE b

Max(a, b) == IF a > b THEN a ELSE b

\* Array.prototype.slice(0, n)
Slice(s, n) == SubSeq(s, 1, Min(n, Len(s)))

\* Array.prototype.sort of s with a comparator whose results are cmp:
\* cmp[i, j] is compare(s[i], s[j]).  The sort is stable (ECMAScript 2019), so
\* an element moves before another only when the comparator says so.
StableSort(s, cmp) ==
  LET before(j, i) == cmp[j, i] < 0 \/ (cmp[j, i] = 0 /\ j < i)
      pos == [i \in 1..Len(s) |-> 1 + Cardinality({j \in 1..Len(s) : before(j, i)})]
  IN  [k \in 1..Len(s) |-> s[CHOOSE i \in 1..Len(s) : pos[i] = k]]

(***************************************************************************)
(* Names and paths                                                         *)
(***************************************************************************)
Name(base, ext) == <<base, ext>>

\* String.prototype.toLowerCase on the segments that occur in the model
ToLowerCase(seg) ==
  CASE seg = "JS" -> "js"
    [] seg = "CSS" -> "css"
    [] OTHER -> seg

\* path.extname: from the last dot, "" when there is none or when the only
\* dot is the leading one
ExtName(name) ==
  IF Len(name) < 2 \/ (Len(name) = 2 /\ name[1] = "") THEN "" ELSE Last(name)

\* String.prototype.startsWith('.')
StartsWithDot(name) == Len(name) >= 2 /\ name[1] = ""

\* String.prototype.endsWith('.' + suffix) on a path
EndsWith(path, suffix) == Len(Last(path)) >= 2 /\ Last(Last(path)) = suffix

ProjectRoot == <<"cwd">>

\* path.join(this.projectRoot, ...rel)
Join(rel) == <<ProjectRoot>> \o rel

\* path.relative(this.projectRoot, abs)
Relative(abs) == SubSeq(abs, 2, Len(abs))

(***************************************************************************)
(* The file tree.  A node is                                               *)
(*   [name, kind: "file" | "dir" | "symlink", size, readable, content,     *)
(*    children]                                                            *)
(* content is the sequence of lines of a file, each line                   *)
(* [len |-> its length, has |-> the anti-pattern substrings it includes].  *)
(***************************************************************************)
File(name, size, content) ==
  [name |-> name, kind |-> "file", size |-> size, readable |-> TRUE,
   content |-> content, children |-> <<>>]

Dir(name, readable, children) ==
  [name |-> name, kind |-> "dir", size |-> 0, readable |-> readable,
   content |-> <<>>, children |-> children]

Symlink(name) ==
  [name |-> name, kind |-> "symlink", size |-> 0, readable |-> TRUE,
   content |-> <<>>, children |-> <<>>]

HasChild(dir, name) == \E i \in 1..Len(dir.children) : dir.children[i].name = name

Child(dir, name) ==
  dir.children[CHOOSE i \in 1..Len(dir.children) : dir.children[i].name = name]

\* the node an absolute path names, None when there is none
RECURSIVE LookupFrom(_, _)
LookupFrom(node, rel) ==
  IF rel = <<>> THEN Some(node)
  ELSE IF node.kind = "dir" /\ HasChild(node, Head(rel))
       THEN LookupFrom(Child(node, Head(rel)), Tail(rel))
       ELSE None

Lookup(root, abs) ==
  IF abs = <<>> \/ Head(abs) # root.name THEN None ELSE LookupFrom(root, Tail(abs))

\* fs.existsSync
ExistsSync(root, abs) == IsSome(Lookup(root, abs))

\* fs.statSync(abs).size of a file getAllFiles returned
StatSize(root, abs) == Get(Lookup(root, abs)).size

(***************************************************************************)
(* BundleAnalyzer (bundle-analyzer.js)                                     *)
(***************************************************************************)
Threw == [threw |-> TRUE]

\* a bug that takes everything that is not a directory for a regular file
IsFileOrLink(entry) == entry.kind # "dir"

\* Dirent.isFile(): false for a symbolic link
IsFile(entry) == entry.kind = "file"

\* BundleAnalyzer.getAllFiles: the absolute paths of the regular files under
\* dirPath, in directory order; readdirSync throws on a directory that
\* cannot be read, and nothing catches it here.
RECURSIVE GetAllFilesIn(_, _, _)
GetAllFilesIn(dirPath, entries, acc) ==
  IF entries = <<>> THEN [threw |-> FALSE, files |-> acc]
  ELSE LET entry == Head(entries)
           fullPath == Append(dirPath, entry.name)
       IN  IF entry.kind = "dir"
           THEN IF ~entry.readable THEN Threw
                ELSE LET sub == GetAllFilesIn(fullPath, entry.children, <<>>)
                     IN  IF sub.threw THEN Threw
                         ELSE GetAllFilesIn(dirPath, Tail(entries), acc \o sub.files)
           ELSE IF IsFile(entry)
                THEN GetAllFilesIn(dirPath, Tail(entries), Append(acc, fullPath))
                ELSE GetAllFilesIn(dirPath, Tail(entries), acc)

GetAllFiles(root, dirPath) ==
  LET node == Lookup(root, dirPath)
  IN  IF ~IsSome(node) \/ Get(node).kind # "dir" \/ ~Get(node).readable THEN Threw
      ELSE GetAllFilesIn(dirPath, Get(node).children, <<>>)

RECURSIVE SumSizes(_)
SumSizes(infos) == IF infos = <<>> THEN 0 ELSE Head(infos).size + SumSizes(Tail(infos))

\* Math.round(size / 1024 * 100) / 100, kept in hundredths of a KB
SizeKB(size) == (size * 200 + 1024) \div 2048

ScriptExts == {"js", "mjs", "jsx", "ts", "tsx"}
StyleExts == {"css", "scss", "sass", "less"}
LargeFileBytes == 100000

\* (a, b) => b.size - a.size
BySizeDesc(a, b) == b.size - a.size

\* infos.sort((a, b) => b.size - a.size)
SortBySize(infos) ==
  StableSort(infos, [i, j \in 1..Len(infos) |-> BySizeDesc(infos[i], infos[j])])

\* a bug that also lists the files of exactly the threshold size
IsLargestFileInclusive(info) == info.size >= LargeFileBytes

IsLargestFile(info) == info.size > LargeFileBytes

\* BundleAnalyzer.analyzeBuildDirectory
AnalyzeBuildDirectory(root, dirPath) ==
  LET got == GetAllFiles(root, dirPath)
  IN  IF got.threw THEN Threw
      ELSE
        LET files == got.files
            fileInfo(file) == [path |-> Relative(file),
                               size |-> StatSize(root, file),
                               sizeKB |-> SizeKB(StatSize(root, file))]
            infos == [i \in 1..Len(files) |-> fileInfo(files[i])]
            ext(info) == ToLowerCase(ExtName(Last(info.path)))
            isJs(info) == ext(info) \in ScriptExts
            isCss(info) == ~isJs(info) /\ ext(info) \in StyleExts
            isAsset(info) == ~isJs(info) /\ ~isCss(info)
        IN  [threw |-> FALSE,
             analysis |->
               [totalSize |-> SumSizes(infos),
                fileCount |-> Len(infos),
                jsFiles |-> SortBySize(SelectSeq(infos, isJs)),
                cssFiles |-> SortBySize(SelectSeq(infos, isCss)),
                assetFiles |-> SelectSeq(infos, isAsset),   \* pushed, never sorted
                largestFiles |-> SortBySize(SelectSeq(infos, IsLargestFile))]]

BuildDirs == << <<"dist">>, <<"build">>, <<"public">>, <<"out">>, <<"", "next">> >>

\* BundleAnalyzer.analyzeBuildOutput: results.buildSize after the phase, as
\* the sequence of its [dir, analysis] entries in insertion order
RECURSIVE AnalyzeBuilds(_, _, _)
AnalyzeBuilds(root, dirs, acc) ==
  IF dirs = <<>> THEN [threw |-> FALSE, buildSize |-> acc]
  ELSE LET a == AnalyzeBuildDirectory(root, Join(<<Head(dirs)>>))
       IN  IF a.threw THEN [threw |-> TRUE, buildSize |-> acc]
           ELSE AnalyzeBuilds(root, Tail(dirs),
                              Append(acc, [dir |-> Head(dirs), analysis |-> a.analysis]))

FoundBuilds(root) == SelectSeq(BuildDirs, LAMBDA d : ExistsSync(root, Join(<<d>>)))

AnalyzeBuildOutput(root, buildSize) == AnalyzeBuilds(root, FoundBuilds(root), buildSize)

(***************************************************************************)
(* The manifest (package.json) is                                          *)
(*   [state: "absent" | "malformed" | "valid", dependencies,               *)
(*    devDependencies, buildScript, sideEffects]                           *)
(* dependencies and devDependencies are the declared names in key order    *)
(* (every declared version range is a non-empty string), buildScript is    *)
(* None or Some(the bundler names scripts.build includes), sideEffects     *)
(* says whether the key is defined.  JSON.parse throws on "malformed".     *)
(***************************************************************************)
Range(s) == {s[i] : i \in 1..Len(s)}

Declared(manifest) == Range(manifest.dependencies) \cup Range(manifest.devDependencies)

Bundlers ==
  << [name |-> "webpack", config |-> <<"webpack", "config", "js">>, alt |-> <<"webpack", "config", "ts">>],
     [name |-> "vite", config |-> <<"vite", "config", "js">>, alt |-> <<"vite", "config", "ts">>],
     [name |-> "rollup", config |-> <<"rollup", "config", "js">>, alt |-> <<"rollup", "config", "ts">>],
     [name |-> "parcel", config |-> <<"", "parcelrc">>, alt |-> <<"parcel", "config", "js">>],
     [name |-> "esbuild", config |-> <<"esbuild", "config", "js">>, alt |-> <<"build", "js">>],
     [name |-> "snowpack", config |-> <<"snowpack", "config", "js">>, alt |-> <<"snowpack", "config", "mjs">>] >>

\* BundleAnalyzer.detectBundler: [threw, bundler]
DetectBundler(root, manifest) ==
  LET has(b) == ExistsSync(root, Join(<<b.config>>)) \/ ExistsSync(root, Join(<<b.alt>>))
      found == {i \in 1..Len(Bundlers) : has(Bundlers[i])}
      hint(name) == [threw |-> FALSE,
                     bundler |-> Some([name |-> name, configFile |-> None, hasConfig |-> FALSE])]
      script == manifest.buildScript
  IN  IF found # {}
      THEN LET b == Bundlers[CHOOSE i \in found : \A j \in found : i <= j]
           IN  [threw |-> FALSE,
                bundler |-> Some([name |-> b.name,
                                  configFile |-> Some(IF ExistsSync(root, Join(<<b.config>>))
                                                      THEN b.config ELSE b.alt),
                                  hasConfig |-> TRUE])]
      ELSE IF manifest.state = "absent" THEN [threw |-> FALSE, bundler |-> None]
      ELSE IF manifest.state = "malformed" THEN [threw |-> TRUE, bundler |-> None]
      ELSE IF IsSome(script) /\ "vite" \in Get(script) THEN hint("vite")
      ELSE IF IsSome(script) /\ "webpack" \in Get(script) THEN hint("webpack")
      ELSE IF {"@parcel/core", "parcel"} \cap Declared(manifest) # {} THEN hint("parcel")
      ELSE IF "rollup" \in Declared(manifest) THEN hint("rollup")
      ELSE hint("unknown")

BundlerName(b) == IF IsSome(b) THEN Get(b).name ELSE "none"

\* String.prototype.includes on a name segment: the segments of the model
\* that include word without being it
SegmentIncludes(seg, word) ==
  seg = word \/ <<seg, word>> \in { <<"vendors", "vendor">>, <<"chunk-vendors", "vendor">>,
                                   <<"chunk-vendors", "chunk">>, <<"commons", "common">>,
                                   <<"vendors~main", "vendor">> }

NameIncludes(name, word) == \E i \in 1..Len(name) : SegmentIncludes(name[i], word)

\* /^[a-f0-9]{8,}$/ on the segments of the model
IsHexHash(seg) == seg \in {"a1b2c3d4", "0123456789abcdef"}

\* /\.[a-f0-9]{8,}\.js$/.test(filename)
HasHashBeforeJs(name) == Len(name) >= 3 /\ Last(name) = "js" /\ IsHexHash(name[Len(name) - 1])

IsChunk(name) ==
  \/ NameIncludes(name, "chunk")
  \/ NameIncludes(name, "vendor")
  \/ NameIncludes(name, "common")
  \/ HasHashBeforeJs(name)

RECURSIVE JsFilesOf(_)
JsFilesOf(buildSize) ==
  IF buildSize = <<>> THEN <<>>
  ELSE Head(buildSize).analysis.jsFiles \o JsFilesOf(Tail(buildSize))

\* a bug that looks for compressed siblings among the scripts only
RECURSIVE AllFilesOfScriptsOnly(_)
AllFilesOfScriptsOnly(buildSize) ==
  IF buildSize = <<>> THEN <<>>
  ELSE Head(buildSize).analysis.jsFiles \o AllFilesOfScriptsOnly(Tail(buildSize))

RECURSIVE AllFilesOf(_)
AllFilesOf(buildSize) ==
  IF buildSize = <<>> THEN <<>>
  ELSE LET a == Head(buildSize).analysis
       IN  a.jsFiles \o a.cssFiles \o a.assetFiles \o AllFilesOf(Tail(buildSize))

LargeEntryBytes == 500000

\* a bug that flags every large script, chunk or not
AnalyzeChunkingFlaggingChunks(buildSize) ==
  LET js == JsFilesOf(buildSize)
      chunkFiles == SelectSeq(js, LAMBDA f : IsChunk(Last(f.path)))
      isVendor(f) == NameIncludes(Last(f.path), "vendor") \/ NameIncludes(Last(f.path), "node_modules")
      isLargeEntry(f) == f.size > LargeEntryBytes
      large == SelectSeq(js, isLargeEntry)
  IN  [hasCodeSplitting |-> chunkFiles # <<>>,
       chunkFiles |-> chunkFiles,
       vendorChunks |-> SelectSeq(chunkFiles, isVendor),
       recommendations |-> [i \in 1..Len(large) |->
                              [type |-> "code-splitting", file |-> large[i].path, size |-> large[i].sizeKB]]]

\* BundleAnalyzer.analyzeChunking: results.chunkAnalysis
AnalyzeChunking(buildSize) ==
  LET js == JsFilesOf(buildSize)
      chunkFiles == SelectSeq(js, LAMBDA f : IsChunk(Last(f.path)))
      isVendor(f) == NameIncludes(Last(f.path), "vendor") \/ NameIncludes(Last(f.path), "node_modules")
      isLargeEntry(f) == f.size > LargeEntryBytes /\ ~\E i \in 1..Len(chunkFiles) : chunkFiles[i].path = f.path
      large == SelectSeq(js, isLargeEntry)
  IN  [hasCodeSplitting |-> chunkFiles # <<>>,
       chunkFiles |-> chunkFiles,
       vendorChunks |-> SelectSeq(chunkFiles, isVendor),
       recommendations |-> [i \in 1..Len(large) |->
                              [type |-> "code-splitting", file |-> large[i].path, size |-> large[i].sizeKB]]]

TreeShakingWords == {"sideEffects", "usedExports", "mode: \"production\""}

\* the searched substrings some line of a file includes
Includes(node) == UNION {node.content[i].has : i \in 1..Len(node.content)}

\* BundleAnalyzer.checkTreeShaking: [threw, treeshaking]
CheckTreeShaking(root, manifest, bundler) ==
  LET config == IF IsSome(bundler) /\ IsSome(Get(bundler).configFile)
                THEN Lookup(root, Join(<<Get(Get(bundler).configFile)>>)) ELSE None
      byConfig == /\ IsSome(config)
                  /\ Get(config).kind = "file"
                  /\ Get(config).readable
                  /\ Includes(Get(config)) \cap TreeShakingWords # {}
  IN  IF manifest.state = "malformed" THEN [threw |-> TRUE, treeshaking |-> None]
      ELSE [threw |-> FALSE,
            treeshaking |-> Some([enabled |-> byConfig \/ (manifest.state = "valid" /\ manifest.sideEffects)])]

RECURSIVE SumLens(_)
SumLens(content) == IF content = <<>> THEN 0 ELSE Head(content).len + SumLens(Tail(content))

\* content.split('\n').length and content.length
NumLines(content) == Max(1, Len(content))
NumChars(content) == SumLens(content) + NumLines(content) - 1

MinifiedLineLength == 500

\* BundleAnalyzer.checkCompression: results.compression
CheckCompression(root, buildSize) ==
  LET all == AllFilesOf(buildSize)
      sampled(b) == Range(Slice(b.analysis.jsFiles, 3))
      looksMinified(f) ==
        LET node == Get(Lookup(root, Join(f.path)))
        IN  node.readable /\ NumChars(node.content) > MinifiedLineLength * NumLines(node.content)
  IN  [gzip |-> \E i \in 1..Len(all) : EndsWith(all[i].path, "gz"),
       brotli |-> \E i \in 1..Len(all) : EndsWith(all[i].path, "br"),
       minification |-> \E i \in 1..Len(buildSize) : \E f \in sampled(buildSize[i]) : looksMinified(f)]

Rec(category, priority, issue) == [category |-> category, priority |-> priority, issue |-> issue]

LargeBundleBytes == 5000000
LargeScriptBytes == 1000000
TopScripts == 3

\* a bug that forgets the cap on the scripts looked at
RECURSIVE BuildOptimizationsUncapped(_)
BuildOptimizationsUncapped(buildSize) ==
  IF buildSize = <<>> THEN <<>>
  ELSE LET b == Head(buildSize)
           large == SelectSeq(b.analysis.jsFiles, LAMBDA f : f.size > LargeScriptBytes)
       IN  (IF b.analysis.totalSize > LargeBundleBytes
            THEN <<Rec("Bundle Size", "High", <<"Large bundle size in">> \o <<b.dir>>)>>
            ELSE <<>>)
           \o [i \in 1..Len(large) |->
                 Rec("Code Splitting", "High", <<"Large JavaScript file:">> \o large[i].path)]
           \o BuildOptimizationsUncapped(Tail(buildSize))

\* the optimizations generateOptimizations pushes for the build directories
RECURSIVE BuildOptimizations(_)
BuildOptimizations(buildSize) ==
  IF buildSize = <<>> THEN <<>>
  ELSE LET b == Head(buildSize)
           top == Slice(b.analysis.jsFiles, TopScripts)
           large == SelectSeq(top, LAMBDA f : f.size > LargeScriptBytes)
       IN  (IF b.analysis.totalSize > LargeBundleBytes
            THEN <<Rec("Bundle Size", "High", <<"Large bundle size in">> \o <<b.dir>>)>>
            ELSE <<>>)
           \o [i \in 1..Len(large) |->
                 Rec("Code Splitting", "High", <<"Large JavaScript file:">> \o large[i].path)]
           \o BuildOptimizations(Tail(buildSize))

\* BundleAnalyzer.addBundlerSpecificOptimizations
BundlerSpecificOptimizations(bundler) ==
  CASE BundlerName(bundler) = "webpack" -> <<Rec("Webpack", "Medium", <<"Webpack optimizations">>)>>
    [] BundlerName(bundler) = "vite" -> <<Rec("Vite", "Low", <<"Vite optimizations">>)>>
    [] BundlerName(bundler) = "rollup" -> <<Rec("Rollup", "Medium", <<"Rollup optimizations">>)>>
    [] OTHER -> <<>>

\* BundleAnalyzer.generateOptimizations: results.optimizations
GenerateOptimizations(b) ==
  BuildOptimizations(b.buildSize)
  \o (IF IsSome(b.treeshaking) /\ Get(b.treeshaking).enabled THEN <<>>
      ELSE <<Rec("Tree Shaking", "Medium", <<"Tree-shaking not detected">>)>>)
  \o (IF IsSome(b.compression) /\ Get(b.compression).gzip THEN <<>>
      ELSE <<Rec("Compression", "Medium", <<"Gzip compression not enabled">>)>>)
  \o (IF IsSome(b.compression) /\ Get(b.compression).brotli THEN <<>>
      ELSE <<Rec("Compression", "Low", <<"Brotli compression not enabled">>)>>)
  \o BundlerSpecificOptimizations(b.bundler)

\* BundleAnalyzer.generateConfigs: the file it writes, if any
GeneratedConfig(bundler) ==
  CASE BundlerName(bundler) = "webpack" -> {"webpack.config.optimized.js"}
    [] BundlerName(bundler) = "vite" -> {"vite.config.optimized.js"}
    [] BundlerName(bundler) = "rollup" -> {"rollup.config.optimized.js"}
    [] OTHER -> {}

(***************************************************************************)
(* PerformanceAnalyzer (performance-analyzer.js)                           *)
(***************************************************************************)
\* a bug that looks for the meta-framework before the UI frameworks
DetectProjectTypeNextFirst(manifest) ==
  LET deps == Declared(manifest)
  IN  IF manifest.state = "absent" THEN [threw |-> FALSE, projectType |-> "unknown"]
      ELSE IF manifest.state = "malformed" THEN [threw |-> TRUE, projectType |-> "undefined"]
      ELSE [threw |-> FALSE,
            projectType |->
              IF "next" \in deps THEN "Next.js"
              ELSE IF "react" \in deps THEN "React"
              ELSE IF "vue" \in deps \/ "@vue/cli-service" \in deps THEN "Vue"
              ELSE IF "@angular/core" \in deps THEN "Angular"
              ELSE IF "svelte" \in deps THEN "Svelte"
              ELSE "JavaScript"]

\* PerformanceAnalyzer.detectProjectType: [threw, projectType]
DetectProjectType(manifest) ==
  LET deps == Declared(manifest)
  IN  IF manifest.state = "absent" THEN [threw |-> FALSE, projectType |-> "unknown"]
      ELSE IF manifest.state = "malformed" THEN [threw |-> TRUE, projectType |-> "undefined"]
      ELSE [threw |-> FALSE,
            projectType |->
              IF "react" \in deps THEN "React"
              ELSE IF "vue" \in deps \/ "@vue/cli-service" \in deps THEN "Vue"
              ELSE IF "@angular/core" \in deps THEN "Angular"
              ELSE IF "next" \in deps THEN "Next.js"
              ELSE IF "svelte" \in deps THEN "Svelte"
              ELSE "JavaScript"]

HeavyDependencies ==
  {"lodash", "moment", "jquery", "bootstrap", "antd", "material-ui", "@material-ui/core", "rxjs"}

\* dep.includes(heavy) on the dependency names of the model
DepIncludes(dep, heavy) ==
  dep = heavy \/ <<dep, heavy>> \in { <<"lodash-es", "lodash">>, <<"react-bootstrap", "bootstrap">>,
                                     <<"@material-ui/core", "material-ui">>,
                                     <<"moment-timezone", "moment">> }

IsHeavy(dep) == \E heavy \in HeavyDependencies : DepIncludes(dep, heavy)

DuplicateGroups ==
  << {"moment", "dayjs", "date-fns"}, {"lodash", "underscore", "ramda"},
     {"axios", "fetch", "superagent"}, {"uuid", "shortid", "nanoid"} >>

\* a bug that reports a group as soon as one member is declared
FindDuplicateDependenciesFromOne(dependencies) ==
  LET found(g) == SelectSeq(dependencies, LAMBDA dep : dep \in DuplicateGroups[g])
      hits == SelectSeq([g \in 1..Len(DuplicateGroups) |-> g], LAMBDA g : Len(found(g)) > 0)
  IN  [k \in 1..Len(hits) |-> found(hits[k])]

\* PerformanceAnalyzer.findDuplicateDependencies
FindDuplicateDependencies(dependencies) ==
  LET found(g) == SelectSeq(dependencies, LAMBDA dep : dep \in DuplicateGroups[g])
      hits == SelectSeq([g \in 1..Len(DuplicateGroups) |-> g], LAMBDA g : Len(found(g)) > 1)
  IN  [k \in 1..Len(hits) |-> found(hits[k])]

\* PerformanceAnalyzer.analyzeDependencies: [threw, dependencyAnalysis]
AnalyzeDependencies(manifest, before) ==
  IF manifest.state = "absent" THEN [threw |-> FALSE, dependencyAnalysis |-> before]
  ELSE IF manifest.state = "malformed" THEN [threw |-> TRUE, dependencyAnalysis |-> before]
  ELSE [threw |-> FALSE,
        dependencyAnalysis |->
          Some([totalDependencies |-> Len(manifest.dependencies),
                totalDevDependencies |-> Len(manifest.devDependencies),
                heavyDependencies |-> SelectSeq(manifest.dependencies, IsHeavy),
                duplicateDependencies |-> FindDuplicateDependencies(manifest.dependencies)])]

CodeExts == {"js", "jsx", "ts", "tsx", "vue", "svelte"}

\* PerformanceAnalyzer.findFiles: as getAllFiles, without the directories
\* whose name starts with '.' or is node_modules, and only the files with
\* one of the extensions
RECURSIVE FindFilesIn(_, _, _)
FindFilesIn(dirPath, entries, acc) ==
  IF entries = <<>> THEN [threw |-> FALSE, files |-> acc]
  ELSE LET entry == Head(entries)
           fullPath == Append(dirPath, entry.name)
       IN  IF entry.kind = "dir" /\ ~StartsWithDot(entry.name) /\ entry.name # <<"node_modules">>
           THEN IF ~entry.readable THEN Threw
                ELSE LET sub == FindFilesIn(fullPath, entry.children, <<>>)
                     IN  IF sub.threw THEN Threw
                         ELSE FindFilesIn(dirPath, Tail(entries), acc \o sub.files)
           ELSE IF IsFile(entry) /\ ExtName(entry.name) \in CodeExts
                THEN FindFilesIn(dirPath, Tail(entries), Append(acc, fullPath))
                ELSE FindFilesIn(dirPath, Tail(entries), acc)

FindFiles(root) ==
  IF ~root.readable THEN Threw ELSE FindFilesIn(<<root.name>>, root.children, <<>>)

LargeSourceBytes == 100000

\* Math.round(size / 1024)
RoundKB(size) == (size * 2 + 1024) \div 2048

InlineStyleWords == {"style={{", "style=\"{"}
DomQueryWords == {"document.querySelector", "getElementById"}

\* a bug that lets the first file that cannot be read end the loop
ReadableFilesUntilFailure(nodes) ==
  LET failed == {i \in 1..Len(nodes) : ~nodes[i].node.readable}
  IN  IF failed = {} THEN nodes
      ELSE SubSeq(nodes, 1, (CHOOSE i \in failed : \A j \in failed : i <= j) - 1)

\* the files of the loop whose try block completes: readFileSync throws on a
\* file that cannot be read, before anything of that file is recorded, and
\* the catch of that iteration logs it and goes on with the next file
ReadableFiles(nodes) == SelectSeq(nodes, LAMBDA f : f.node.readable)

\* PerformanceAnalyzer.analyzeCodePatterns: [threw, codeAnalysis]
AnalyzeCodePatterns(root) ==
  LET got == FindFiles(root)
  IN  IF got.threw THEN [threw |-> TRUE]
      ELSE
        LET nodes == [i \in 1..Len(got.files) |->
                        [path |-> Relative(got.files[i]), node |-> Get(Lookup(root, got.files[i]))]]
            read == ReadableFiles(nodes)
            large == SelectSeq(read, LAMBDA f : f.node.size > LargeSourceBytes)
            count(f, words) == Cardinality({l \in 1..Len(f.node.content) : f.node.content[l].has \cap words # {}})
            RECURSIVE total(_, _)
            total(fs, words) == IF fs = <<>> THEN 0 ELSE count(Head(fs), words) + total(Tail(fs), words)
            domLines(f) == SelectSeq([l \in 1..Len(f.node.content) |-> l],
                                     LAMBDA l : f.node.content[l].has \cap DomQueryWords # {})
            RECURSIVE dom(_)
            dom(fs) == IF fs = <<>> THEN <<>>
                       ELSE [k \in 1..Len(domLines(Head(fs))) |->
                               [file |-> Head(fs).path, line |-> domLines(Head(fs))[k],
                                issue |-> "DOM manipulation in component"]]
                            \o dom(Tail(fs))
        IN  [threw |-> FALSE,
             codeAnalysis |->
               Some([largeFiles |-> [i \in 1..Len(large) |->
                                       [file |-> large[i].path, size |-> RoundKB(large[i].node.size)]],
                     inefficientPatterns |-> dom(read),
                     inlineStyles |-> total(read, InlineStyleWords),
                     consoleStatements |-> total(read, {"console."})])]

\* PerformanceAnalyzer.analyzeBundleSize with getBuildScripts: [threw, bundleAnalysis]
AnalyzeBundleSize(root, manifest) ==
  IF manifest.state = "malformed" THEN [threw |-> TRUE]
  ELSE [threw |-> FALSE,
        bundleAnalysis |->
          Some([hasWebpack |-> ExistsSync(root, Join(<< <<"webpack", "config", "js">> >>)),
                hasVite |-> ExistsSync(root, Join(<< <<"vite", "config", "js">> >>)),
                hasRollup |-> ExistsSync(root, Join(<< <<"rollup", "config", "js">> >>)),
                hasParcel |-> ExistsSync(root, Join(<< <<"", "parcelrc">> >>)),
                buildScripts |-> IF manifest.state = "valid" THEN manifest.buildScript ELSE None])]

InlineStyleLimit == 10

\* PerformanceAnalyzer.addFrameworkSpecificRecommendations
FrameworkSpecificRecommendations(projectType) ==
  CASE projectType = "React" -> <<Rec("React Optimization", "Medium", <<"General React optimizations">>)>>
    [] projectType = "Vue" -> <<Rec("Vue Optimization", "Medium", <<"General Vue optimizations">>)>>
    [] projectType = "Angular" -> <<Rec("Angular Optimization", "Medium", <<"General Angular optimizations">>)>>
    [] OTHER -> <<>>

\* a bug that lets the styling rule short-circuit the production rule
GenerateRecommendationsShortCircuit(p) ==
  LET dep == p.dependencyAnalysis
      code == p.codeAnalysis
  IN  (IF IsSome(dep) /\ Len(Get(dep).heavyDependencies) > 0
       THEN <<Rec("Dependencies", "High", <<"Heavy dependencies detected">>)>> ELSE <<>>)
      \o (IF IsSome(code) /\ Len(Get(code).largeFiles) > 0
          THEN <<Rec("Code Splitting", "High", <<"Large files detected">>)>> ELSE <<>>)
      \o (IF IsSome(code) /\ Get(code).inlineStyles > InlineStyleLimit
          THEN <<Rec("Styling", "Medium", <<"Excessive inline styles">>)>>
          ELSE IF IsSome(code) /\ Get(code).consoleStatements > 0
               THEN <<Rec("Production", "Medium", <<"Console statements in code">>)>> ELSE <<>>)
      \o FrameworkSpecificRecommendations(p.projectType)

\* PerformanceAnalyzer.generateRecommendations: results.recommendations
GenerateRecommendations(p) ==
  LET dep == p.dependencyAnalysis
      code == p.codeAnalysis
  IN  (IF IsSome(dep) /\ Len(Get(dep).heavyDependencies) > 0
       THEN <<Rec("Dependencies", "High", <<"Heavy dependencies detected">>)>> ELSE <<>>)
      \o (IF IsSome(code) /\ Len(Get(code).largeFiles) > 0
          THEN <<Rec("Code Splitting", "High", <<"Large files detected">>)>> ELSE <<>>)
      \o (IF IsSome(code) /\ Get(code).inlineStyles > InlineStyleLimit
          THEN <<Rec("Styling", "Medium", <<"Excessive inline styles">>)>> ELSE <<>>)
      \o (IF IsSome(code) /\ Get(code).consoleStatements > 0
          THEN <<Rec("Production", "Medium", <<"Console statements in code">>)>> ELSE <<>>)
      \o FrameworkSpecificRecommendations(p.projectType)

(***************************************************************************)
(* PerformanceAnalysisRunner (run-performance-analysis.js)                 *)
(***************************************************************************)
HighPenalty == 15
MediumPenalty == 10
LowPenalty == 5

Penalty(priority) ==
  IF priority = "High" THEN HighPenalty
  ELSE IF priority = "Medium" THEN MediumPenalty
  ELSE LowPenalty

\* a bug that forgets the floor
UnflooredScore(score) == score

\* Math.max(0, summary.score)
FloorScore(score) == Max(0, score)

\* one forEach of generateSummary over recs, tagging each with source
RECURSIVE Aggregate(_, _, _)
Aggregate(summary, recs, source) ==
  IF recs = <<>> THEN summary
  ELSE LET rec == Head(recs)
       IN  Aggregate([totalIssues |-> summary.totalIssues + 1,
                      criticalIssues |-> summary.criticalIssues + (IF rec.priority = "High" THEN 1 ELSE 0),
                      score |-> summary.score - Penalty(rec.priority),
                      recommendations |->
                        Append(summary.recommendations,
                               [source |-> source, category |-> rec.category,
                                priority |-> rec.priority, issue |-> rec.issue])],
                     Tail(recs), source)

\* PerformanceAnalysisRunner.generateSummary
GenerateSummary(res) ==
  LET start == [totalIssues |-> 0, criticalIssues |-> 0, recommendations |-> <<>>, score |-> 100]
      afterPerf == IF IsSome(res.performance)
                   THEN Aggregate(start, Get(res.performance).recommendations, "Performance")
                   ELSE start
      afterBundle == IF IsSome(res.bundle)
                     THEN Aggregate(afterPerf, Get(res.bundle).optimizations, "Bundle")
                     ELSE afterPerf
  IN  [afterBundle EXCEPT !.score = FloorScore(afterBundle.score)]

PriorityOrder(priority) ==
  CASE priority = "High" -> 3
    [] priority = "Medium" -> 2
    [] priority = "Low" -> 1

\* (a, b) => priorityOrder[b.priority] - priorityOrder[a.priority]
ByPriority(a, b) == PriorityOrder(b.priority) - PriorityOrder(a.priority)

TopCount == 5

\* a bug that swaps a and b in the comparator
SortRecommendationsAscending(recs) ==
  StableSort(recs, [i, j \in 1..Len(recs) |-> ByPriority(recs[j], recs[i])])

\* summary.recommendations.sort(...) of outputConsole: Array.prototype.sort
\* sorts the array in place and returns it
SortRecommendations(recs) ==
  StableSort(recs, [i, j \in 1..Len(recs) |-> ByPriority(recs[i], recs[j])])

TopRecommendations(sorted) == Slice(sorted, TopCount)

\* the file outputResults writes for a format, if any
OutputFile(format) ==
  CASE format = "json" -> {"performance-analysis-complete.json"}
    [] format = "html" -> {"performance-analysis-report.html"}
    [] OTHER -> {}

NewPerformanceResults ==
  [projectType |-> "undefined", bundleAnalysis |-> None, dependencyAnalysis |-> None,
   codeAnalysis |-> None, recommendations |-> <<>>]

NewBundleResults ==
  [bundler |-> None, buildSize |-> <<>>, chunkAnalysis |-> None, optimizations |-> <<>>,
   treeshaking |-> None, compression |-> None]

NewResults == [performance |-> None, bundle |-> None, summary |-> None]

(***************************************************************************)
(* The run, one action per phase.  A phase of an analyzer that throws is   *)
(* caught by the try/catch of that analyzer's analyze(), which prints the  *)
(* error and returns.                                                      *)
(***************************************************************************)
Enter(phase) == ran' = Append(ran, phase)

PerformanceFailed ==
  /\ pc' = "performanceDone"
  /\ stderr' = Append(stderr, "Analysis failed (PerformanceAnalyzer)")

BundleFailed ==
  /\ pc' = "bundleDone"
  /\ stderr' = Append(stderr, "Bundle analysis failed")

\* a bug that runs the performance analysis whatever the options
StartPerformanceAnalysisAlways ==
  /\ pc = "runComplete"
  /\ pc' = "detectProjectType"
  /\ perf' = NewPerformanceResults
  /\ UNCHANGED <<application, options, env, bundle, results, written, stderr, topRecs, ran, exitCode>>

\* runComplete, lines 37-42
StartPerformanceAnalysis ==
  /\ pc = "runComplete"
  /\ options.runPerformanceAnalysis
  /\ pc' = "detectProjectType"
  /\ perf' = NewPerformanceResults
  /\ UNCHANGED <<application, options, env, bundle, results, written, stderr, topRecs, ran, exitCode>>

SkipPerformanceAnalysis ==
  /\ pc = "runComplete"
  /\ ~options.runPerformanceAnalysis
  /\ pc' = "runBundle"
  /\ UNCHANGED <<application, options, env, perf, bundle, results, written, stderr, topRecs, ran, exitCode>>

DetectProjectTypePhase ==
  /\ pc = "detectProjectType"
  /\ Enter("detectProjectType")
  /\ LET r == DetectProjectType(env.manifest)
     IN  IF r.threw
         THEN PerformanceFailed /\ UNCHANGED perf
         ELSE /\ perf' = [perf EXCEPT !.projectType = r.projectType]
              /\ pc' = "analyzeDependencies"
              /\ UNCHANGED stderr
  /\ UNCHANGED <<application, options, env, bundle, results, written, topRecs, exitCode>>

AnalyzeDependenciesPhase ==
  /\ pc = "analyzeDependencies"
  /\ Enter("analyzeDependencies")
  /\ LET r == AnalyzeDependencies(env.manifest, perf.dependencyAnalysis)
     IN  IF r.threw
         THEN PerformanceFailed /\ UNCHANGED perf
         ELSE /\ perf' = [perf EXCEPT !.dependencyAnalysis = r.dependencyAnalysis]
              /\ pc' = "analyzeCodePatterns"
              /\ UNCHANGED stderr
  /\ UNCHANGED <<application, options, env, bundle, results, written, topRecs, exitCode>>

\* a bug that generates the recommendations right after the code scan
AnalyzeCodePatternsPhaseThenRecommend ==
  /\ pc = "analyzeCodePatterns"
  /\ Enter("analyzeCodePatterns")
  /\ LET r == AnalyzeCodePatterns(env.root)
     IN  IF r.threw
         THEN PerformanceFailed /\ UNCHANGED perf
         ELSE /\ perf' = [perf EXCEPT !.codeAnalysis = r.codeAnalysis]
              /\ pc' = "generateRecommendations"
              /\ UNCHANGED stderr
  /\ UNCHANGED <<application, options, env, bundle, results, written, topRecs, exitCode>>

AnalyzeCodePatternsPhase ==
  /\ pc = "analyzeCodePatterns"
  /\ Enter("analyzeCodePatterns")
  /\ LET r == AnalyzeCodePatterns(env.root)
     IN  IF r.threw
         THEN PerformanceFailed /\ UNCHANGED perf
         ELSE /\ perf' = [perf EXCEPT !.codeAnalysis = r.codeAnalysis]
              /\ pc' = "analyzeBundleSize"
              /\ UNCHANGED stderr
  /\ UNCHANGED <<application, options, env, bundle, results, written, topRecs, exitCode>>

AnalyzeBundleSizePhase ==
  /\ pc = "analyzeBundleSize"
  /\ Enter("analyzeBundleSize")
  /\ LET r == AnalyzeBundleSize(env.root, env.manifest)
     IN  IF r.threw
         THEN PerformanceFailed /\ UNCHANGED perf
         ELSE /\ perf' = [perf EXCEPT !.bundleAnalysis = r.bundleAnalysis]
              /\ pc' = "generateRecommendations"
              /\ UNCHANGED stderr
  /\ UNCHANGED <<application, options, env, bundle, results, written, topRecs, exitCode>>

GenerateRecommendationsPhase ==
  /\ pc = "generateRecommendations"
  /\ Enter("generateRecommendations")
  /\ perf' = [perf EXCEPT !.recommendations = GenerateRecommendations(perf)]
  /\ pc' = "printReport"
  /\ UNCHANGED <<application, options, env, bundle, results, written, stderr, topRecs, exitCode>>

\* PerformanceAnalyzer.printReport, which ends with saveReport
PrintReportPhase ==
  /\ pc = "printReport"
  /\ Enter("printReport")
  /\ IF env.writable
     THEN /\ written' = written \cup {"performance-report.json"}
          /\ pc' = "performanceDone"
          /\ UNCHANGED stderr
     ELSE PerformanceFailed /\ UNCHANGED written
  /\ UNCHANGED <<application, options, env, perf, bundle, results, topRecs, exitCode>>

\* runComplete, line 41
PerformanceReturn ==
  /\ pc = "performanceDone"
  /\ results' = [results EXCEPT !.performance = Some(perf)]
  /\ pc' = "runBundle"
  /\ UNCHANGED <<application, options, env, perf, bundle, written, stderr, topRecs, ran, exitCode>>

\* runComplete, lines 45-50
StartBundleAnalysis ==
  /\ pc = "runBundle"
  /\ options.runBundleAnalysis
  /\ pc' = "detectBundler"
  /\ bundle' = NewBundleResults
  /\ UNCHANGED <<application, options, env, perf, results, written, stderr, topRecs, ran, exitCode>>

SkipBundleAnalysis ==
  /\ pc = "runBundle"
  /\ ~options.runBundleAnalysis
  /\ pc' = "generateSummary"
  /\ UNCHANGED <<application, options, env, perf, bundle, results, written, stderr, topRecs, ran, exitCode>>

DetectBundlerPhase ==
  /\ pc = "detectBundler"
  /\ Enter("detectBundler")
  /\ LET r == DetectBundler(env.root, env.manifest)
     IN  IF r.threw
         THEN BundleFailed /\ UNCHANGED bundle
         ELSE /\ bundle' = [bundle EXCEPT !.bundler = r.bundler]
              /\ pc' = "analyzeBuildOutput"
              /\ UNCHANGED stderr
  /\ UNCHANGED <<application, options, env, perf, results, written, topRecs, exitCode>>

\* the entries of the build directories analysed before one throws stay in
\* results.buildSize
AnalyzeBuildOutputPhase ==
  /\ pc = "analyzeBuildOutput"
  /\ Enter("analyzeBuildOutput")
  /\ LET r == AnalyzeBuildOutput(env.root, bundle.buildSize)
     IN  /\ bundle' = [bundle EXCEPT !.buildSize = r.buildSize]
         /\ IF r.threw
            THEN BundleFailed
            ELSE pc' = "analyzeChunking" /\ UNCHANGED stderr
  /\ UNCHANGED <<application, options, env, perf, results, written, topRecs, exitCode>>

AnalyzeChunkingPhase ==
  /\ pc = "analyzeChunking"
  /\ Enter("analyzeChunking")
  /\ bundle' = [bundle EXCEPT !.chunkAnalysis = Some(AnalyzeChunking(bundle.buildSize))]
  /\ pc' = "checkTreeShaking"
  /\ UNCHANGED <<application, options, env, perf, results, written, stderr, topRecs, exitCode>>

CheckTreeShakingPhase ==
  /\ pc = "checkTreeShaking"
  /\ Enter("checkTreeShaking")
  /\ LET r == CheckTreeShaking(env.root, env.manifest, bundle.bundler)
     IN  IF r.threw
         THEN BundleFailed /\ UNCHANGED bundle
         ELSE /\ bundle' = [bundle EXCEPT !.treeshaking = r.treeshaking]
              /\ pc' = "checkCompression"
              /\ UNCHANGED stderr
  /\ UNCHANGED <<application, options, env, perf, results, written, topRecs, exitCode>>

CheckCompressionPhase ==
  /\ pc = "checkCompression"
  /\ Enter("checkCompression")
  /\ bundle' = [bundle EXCEPT !.compression = Some(CheckCompression(env.root, bundle.buildSize))]
  /\ pc' = "generateOptimizations"
  /\ UNCHANGED <<application, options, env, perf, results, written, stderr, topRecs, exitCode>>

\* a bug that clears the compression section while writing the optimizations
GenerateOptimizationsPhaseClearing ==
  /\ pc = "generateOptimizations"
  /\ Enter("generateOptimizations")
  /\ bundle' = [bundle EXCEPT !.optimizations = GenerateOptimizations(bundle), !.compression = None]
  /\ pc' = "bundlePrintReport"
  /\ UNCHANGED <<application, options, env, perf, results, written, stderr, topRecs, exitCode>>

GenerateOptimizationsPhase ==
  /\ pc = "generateOptimizations"
  /\ Enter("generateOptimizations")
  /\ bundle' = [bundle EXCEPT !.optimizations = GenerateOptimizations(bundle)]
  /\ pc' = "bundlePrintReport"
  /\ UNCHANGED <<application, options, env, perf, results, written, stderr, topRecs, exitCode>>

\* BundleAnalyzer.printReport, which ends with saveReport
BundlePrintReportPhase ==
  /\ pc = "bundlePrintReport"
  /\ Enter("bundlePrintReport")
  /\ IF env.writable
     THEN /\ written' = written \cup {"bundle-analysis-report.json"}
          /\ pc' = "generateConfigs"
          /\ UNCHANGED stderr
     ELSE BundleFailed /\ UNCHANGED written
  /\ UNCHANGED <<application, options, env, perf, bundle, results, topRecs, exitCode>>

GenerateConfigsPhase ==
  /\ pc = "generateConfigs"
  /\ Enter("generateConfigs")
  /\ IF env.writable \/ GeneratedConfig(bundle.bundler) = {}
     THEN /\ written' = written \cup GeneratedConfig(bundle.bundler)
          /\ pc' = "bundleDone"
          /\ UNCHANGED stderr
     ELSE BundleFailed /\ UNCHANGED written
  /\ UNCHANGED <<application, options, env, perf, bundle, results, topRecs, exitCode>>

\* runComplete, line 49
BundleReturn ==
  /\ pc = "bundleDone"
  /\ results' = [results EXCEPT !.bundle = Some(bundle)]
  /\ pc' = "generateSummary"
  /\ UNCHANGED <<application, options, env, perf, bundle, written, stderr, topRecs, ran, exitCode>>

\* runComplete, line 53
GenerateSummaryStep ==
  /\ pc = "generateSummary"
  /\ Enter("generateSummary")
  /\ results' = [results EXCEPT !.summary = Some(GenerateSummary(results))]
  /\ pc' = "outputResults"
  /\ UNCHANGED <<application, options, env, perf, bundle, written, stderr, topRecs, exitCode>>

\* runComplete, lines 56-60, when generateReport is false
NoReport ==
  /\ pc = "outputResults"
  /\ ~options.generateReport
  /\ pc' = "resolved"
  /\ UNCHANGED <<application, options, env, perf, bundle, results, written, stderr, topRecs, ran, exitCode>>

\* outputResults -> outputConsole
OutputConsole ==
  /\ pc = "outputResults"
  /\ options.generateReport
  /\ options.outputFormat \notin {"json", "html"}
  /\ Enter("outputConsole")
  /\ LET sorted == SortRecommendations(Get(results.summary).recommendations)
     IN  /\ results' = [results EXCEPT !.summary = Some([Get(results.summary) EXCEPT !.recommendations = sorted])]
         /\ topRecs' = Some(TopRecommendations(sorted))
  /\ pc' = "resolved"
  /\ UNCHANGED <<application, options, env, perf, bundle, written, stderr, exitCode>>

\* outputResults -> outputJSON or outputHTML; a failed write is caught by
\* runComplete, which prints the error and rethrows
OutputToFile ==
  /\ pc = "outputResults"
  /\ options.generateReport
  /\ options.outputFormat \in {"json", "html"}
  /\ Enter(IF options.outputFormat = "json" THEN "outputJSON" ELSE "outputHTML")
  /\ IF env.writable
     THEN /\ written' = written \cup OutputFile(options.outputFormat)
          /\ pc' = "resolved"
          /\ UNCHANGED stderr
     ELSE /\ pc' = "rejected"
          /\ stderr' = Append(stderr, "Analysis failed (runComplete)")
          /\ UNCHANGED written
  /\ UNCHANGED <<application, options, env, perf, bundle, results, topRecs, exitCode>>

\* the CLI's .then: process.exit(0)
ExitSuccess ==
  /\ pc = "resolved"
  /\ exitCode' = Some(0)
  /\ pc' = "exited"
  /\ UNCHANGED <<application, options, env, perf, bundle, results, written, stderr, topRecs, ran>>

\* the CLI's .catch: prints the error, process.exit(1)
ExitFailure ==
  /\ pc = "rejected"
  /\ stderr' = Append(stderr, "Analysis failed (CLI)")
  /\ exitCode' = Some(1)
  /\ pc' = "exited"
  /\ UNCHANGED <<application, options, env, perf, bundle, results, written, topRecs, ran>>

PerformancePhases ==
  \/ DetectProjectTypePhase
  \/ AnalyzeDependenciesPhase
  \/ AnalyzeCodePatternsPhase
  \/ AnalyzeBundleSizePhase
  \/ GenerateRecommendationsPhase
  \/ PrintReportPhase

BundlePhases ==
  \/ DetectBundlerPhase
  \/ AnalyzeBuildOutputPhase
  \/ AnalyzeChunkingPhase
  \/ CheckTreeShakingPhase
  \/ CheckCompressionPhase
  \/ GenerateOptimizationsPhase
  \/ BundlePrintReportPhase
  \/ GenerateConfigsPhase

Next ==
  \/ StartPerformanceAnalysis
  \/ SkipPerformanceAnalysis
  \/ PerformancePhases
  \/ PerformanceReturn
  \/ StartBundleAnalysis
  \/ SkipBundleAnalysis
  \/ BundlePhases
  \/ BundleReturn
  \/ GenerateSummaryStep
  \/ NoReport
  \/ OutputConsole
  \/ OutputToFile
  \/ ExitSuccess
  \/ ExitFailure

(***************************************************************************)
(* Project directories the runs are checked against                        *)
(***************************************************************************)
Line(len, has) == [len |-> len, has |-> has]

Manifest(state, dependencies, devDependencies, buildScript, sideEffects) ==
  [state |-> state, dependencies |-> dependencies, devDependencies |-> devDependencies,
   buildScript |-> buildScript, sideEffects |-> sideEffects]

NoManifest == Manifest("absent", <<>>, <<>>, None, FALSE)

Manifests ==
  { NoManifest,
    Manifest("malformed", <<>>, <<>>, None, FALSE),
    Manifest("valid", <<"react", "lodash", "moment", "date-fns">>, <<"webpack">>, Some({"webpack"}), FALSE),
    Manifest("valid", <<"vue">>, <<"rollup">>, None, TRUE),
    Manifest("valid", <<>>, <<>>, Some({}), FALSE) }

MB2 == 2 * 1024 * 1024

StyledLines == [i \in 1..11 |-> Line(40, {"style={{"})]

AppProject ==
  << Dir(<<"src">>, TRUE,
         << File(<<"App", "jsx">>, 2000,
                 StyledLines \o <<Line(20, {"console."}), Line(30, {"getElementById", "console."})>>),
            File(<<"big", "js">>, 150000, <<>>),
            [File(<<"secret", "js">>, 10, <<>>) EXCEPT !.readable = FALSE] >>),
     Dir(<<"node_modules">>, FALSE, <<>>),
     File(<<"webpack", "config", "js">>, 300, <<Line(30, {"usedExports"})>>),
     Dir(<<"dist">>, TRUE,
         << File(<<"logo", "png">>, 100, <<>>),
            File(<<"hero", "png">>, 200000, <<>>),
            File(<<"app", "css">>, 100001, <<>>),
            File(<<"main", "js">>, MB2, <<Line(MB2, {})>>),
            Dir(<<"static">>, TRUE,
                << File(<<"vendor", "a1b2c3d4", "js">>, MB2, <<>>),
                   File(<<"app", "JS">>, MB2 + 1, <<>>),
                   File(<<"main", "js", "gz">>, 100000, <<>>),
                   Symlink(<<"latest", "js">>) >>) >>) >>

UnreadableSourceProject ==
  << Dir(<<"src">>, TRUE, <<Dir(<<"private">>, FALSE, <<>>), File(<<"index", "ts">>, 50, <<>>)>>),
     File(<<"vite", "config", "ts">>, 100, <<>>),
     Dir(<<"build">>, TRUE,
         << File(<<"a", "png">>, 10, <<>>), File(<<"b", "png">>, 20, <<>>),
            File(<<"index", "js", "br">>, 30, <<>>) >>) >>

UnreadableBuildProject ==
  << Dir(<<"public">>, TRUE, <<File(<<"index", "html">>, 400, <<>>)>>),
     Dir(<<"dist">>, TRUE, <<File(<<"main", "js">>, MB2, <<>>), Dir(<<"assets">>, FALSE, <<>>)>>) >>

Projects == { <<>>, AppProject, UnreadableSourceProject, UnreadableBuildProject }

Formats == {"console", "json", "html"}

AllOptions ==
  [runPerformanceAnalysis : BOOLEAN, runBundleAnalysis : BOOLEAN,
   generateReport : BOOLEAN, outputFormat : Formats]

Environment(rootReadable, children, manifest, writable) ==
  [root |-> Dir(ProjectRoot, rootReadable, children), manifest |-> manifest, writable |-> writable]

\* the runner is a command-line program: no page and no server with it
NoApplication ==
  /\ monitor = None
  /\ browser = None
  /\ chat = None
  /\ employees = None
  /\ aiChat = None

Fresh ==
  /\ NoApplication
  /\ perf = NewPerformanceResults
  /\ bundle = NewBundleResults
  /\ results = NewResults
  /\ written = {}
  /\ stderr = <<>>
  /\ topRecs = None
  /\ ran = <<>>
  /\ exitCode = None

\* a run of the command-line entry point in some project directory
Init ==
  /\ options \in AllOptions
  /\ \E readable \in BOOLEAN, children \in Projects, manifest \in Manifests, writable \in BOOLEAN :
       env = Environment(readable, children, manifest, writable)
  /\ pc = "runComplete"
  /\ Fresh

Spec == Init /\ [][Next]_vars

(***************************************************************************)
(* generateSummary and outputConsole over arbitrary recommendation lists   *)
(***************************************************************************)
MaxPerfRecs == 3
MaxBundleRecs == 4

Priorities == {"High", "Medium", "Low"}

RECURSIVE SeqsUpTo(_, _)
SeqsUpTo(S, n) ==
  IF n = 0 THEN {<<>>}
  ELSE LET shorter == SeqsUpTo(S, n - 1)
       IN  shorter \cup {Append(q, x) : q \in {r \in shorter : Len(r) = n - 1}, x \in S}

\* recommendations with the given priorities, each with an issue of its own
RecsOf(category, priorities) ==
  [i \in 1..Len(priorities) |-> Rec(category, priorities[i], <<"issue", <<ToString(i)>>>>)]

InitSummary ==
  /\ options = [runPerformanceAnalysis |-> TRUE, runBundleAnalysis |-> TRUE,
                generateReport |-> TRUE, outputFormat |-> "console"]
  /\ env = Environment(TRUE, <<>>, NoManifest, TRUE)
  /\ pc = "generateSummary"
  /\ \E p \in SeqsUpTo(Priorities, MaxPerfRecs), b \in SeqsUpTo(Priorities, MaxBundleRecs),
        ranPerf \in BOOLEAN, ranBundle \in BOOLEAN :
       /\ ranPerf \/ p = <<>>
       /\ ranBundle \/ b = <<>>
       /\ perf = [NewPerformanceResults EXCEPT !.recommendations = RecsOf("Check", p)]
       /\ bundle = [NewBundleResults EXCEPT !.optimizations = RecsOf("Bundle", b)]
       /\ results = [performance |-> IF ranPerf THEN Some(perf) ELSE None,
                     bundle |-> IF ranBundle THEN Some(bundle) ELSE None,
                     summary |-> None]
  /\ written = {}
  /\ stderr = <<>>
  /\ topRecs = None
  /\ ran = <<>>
  /\ exitCode = None
  /\ NoApplication

NextSummary == GenerateSummaryStep \/ OutputConsole

SpecSummary == InitSummary /\ [][NextSummary]_vars

(***************************************************************************)
(* analyzeBuildOutput over the build directories dist/ of bounded size     *)
(***************************************************************************)
MaxEntries == 2
MaxSubEntries == 1

BuildSizes == {LargeFileBytes, LargeFileBytes + 1, MB2}

StaticDir == <<"static">>
LinkName == <<"link", "js">>
BuildFileNames == { <<"main", "js">>, <<"app", "css">>, <<"logo", "png">> }

RECURSIVE DistinctSeqs(_, _)
DistinctSeqs(S, n) ==
  IF n = 0 THEN {<<>>}
  ELSE {<<>>} \cup UNION { {<<x>> \o r : r \in DistinctSeqs(S \ {x}, n - 1)} : x \in S }

\* the entry lists with the given names, each name with every node it may be
RECURSIVE Fill(_, _)
Fill(names, nodesOf) ==
  IF names = <<>> THEN {<<>>}
  ELSE {<<x>> \o r : x \in nodesOf[Head(names)], r \in Fill(Tail(names), nodesOf)}

LeafNodes ==
  [n \in BuildFileNames \cup {LinkName} |->
     IF n = LinkName THEN {Symlink(n)} ELSE {File(n, size, <<>>) : size \in BuildSizes}]

LeafLists ==
  UNION {Fill(names, LeafNodes) : names \in DistinctSeqs(BuildFileNames \cup {LinkName}, MaxSubEntries)}

TopNodes ==
  [n \in BuildFileNames \cup {LinkName, StaticDir} |->
     IF n = StaticDir
     THEN {Dir(n, FALSE, <<>>)} \cup {Dir(n, TRUE, c) : c \in LeafLists}
     ELSE LeafNodes[n]]

BuildTrees ==
  UNION {Fill(names, TopNodes) :
           names \in DistinctSeqs(BuildFileNames \cup {LinkName, StaticDir}, MaxEntries)}

InitBuild ==
  /\ options = [runPerformanceAnalysis |-> FALSE, runBundleAnalysis |-> TRUE,
                generateReport |-> FALSE, outputFormat |-> "console"]
  /\ \E entries \in BuildTrees :
       env = Environment(TRUE, <<Dir(<<"dist">>, TRUE, entries)>>, NoManifest, TRUE)
  /\ pc = "analyzeBuildOutput"
  /\ perf = NewPerformanceResults
  /\ bundle = NewBundleResults
  /\ results = NewResults
  /\ written = {}
  /\ stderr = <<>>
  /\ topRecs = None
  /\ ran = <<"detectBundler">>
  /\ exitCode = None
  /\ NoApplication

NextBuild == AnalyzeBuildOutputPhase

SpecBuild == InitBuild /\ [][NextBuild]_vars

(***************************************************************************)
(* detectProjectType and analyzeDependencies over the manifests that       *)
(* declare a bounded number of packages                                    *)
(***************************************************************************)
MaxDependencies == 2
MaxDevDependencies == 1

DependencyNames ==
  {"react", "vue", "@vue/cli-service", "@angular/core", "next", "svelte",
   "moment", "date-fns", "lodash", "underscore"}

InitManifest ==
  /\ options = [runPerformanceAnalysis |-> TRUE, runBundleAnalysis |-> FALSE,
                generateReport |-> FALSE, outputFormat |-> "console"]
  /\ \E dependencies \in DistinctSeqs(DependencyNames, MaxDependencies),
        devDependencies \in DistinctSeqs(DependencyNames, MaxDevDependencies) :
       env = Environment(TRUE, <<>>, Manifest("valid", dependencies, devDependencies, None, FALSE), TRUE)
  /\ pc = "detectProjectType"
  /\ Fresh

NextManifest == DetectProjectTypePhase \/ AnalyzeDependenciesPhase

SpecManifest == InitManifest /\ [][NextManifest]_vars

(***************************************************************************)
(* analyzeCodePatterns and the phases after it over source trees of        *)
(* bounded size                                                            *)
(***************************************************************************)
MaxSourceEntries == 2
MaxSourceSubEntries == 1

ConsoleTwice == <<Line(16, {"console."}), Line(0, {}), Line(16, {"console."})>>

Unreadable(node) == [node EXCEPT !.readable = FALSE]

SourceFileNames == { <<"app", "js">>, <<"util", "ts">> }
NotesName == <<"notes", "md">>
SrcDir == <<"src">>
GitDir == <<"", "git">>
NodeModulesDir == <<"node_modules">>

\* a source file in a subdirectory: with two console lines, readable or not
SubSourceNodes ==
  [n \in SourceFileNames \cup {NotesName, LinkName} |->
     IF n = LinkName THEN {Symlink(n)}
     ELSE IF n = NotesName THEN {File(n, 40, ConsoleTwice)}
     ELSE {File(n, 40, ConsoleTwice), Unreadable(File(n, 40, ConsoleTwice))}]

SubSourceLists ==
  UNION {Fill(names, SubSourceNodes) :
           names \in DistinctSeqs(SourceFileNames \cup {NotesName, LinkName}, MaxSourceSubEntries)}

\* an entry of the project root: a source file (empty, with console lines,
\* with inline styles, large, or unreadable), a file that is no source, a
\* source directory, or a directory findFiles does not enter
TopSourceNodes ==
  [n \in SourceFileNames \cup {NotesName, SrcDir, GitDir, NodeModulesDir} |->
     IF n \in SourceFileNames
     THEN {File(n, 10, <<>>), File(n, 40, ConsoleTwice), File(n, 500, StyledLines),
           File(n, LargeSourceBytes + 1, <<Line(30, {"getElementById", "console."})>>),
           Unreadable(File(n, 40, ConsoleTwice))}
     ELSE IF n = NotesName THEN {File(n, 40, ConsoleTwice)}
     ELSE IF n = SrcDir THEN {Dir(n, FALSE, <<>>)} \cup {Dir(n, TRUE, c) : c \in SubSourceLists}
     ELSE IF n = GitDir THEN {Dir(n, TRUE, <<File(<<"hook", "js">>, 40, ConsoleTwice)>>)}
     ELSE {Dir(n, FALSE, <<>>), Dir(n, TRUE, <<File(<<"index", "js">>, 40, ConsoleTwice)>>)}]

SourceTrees ==
  UNION {Fill(names, TopSourceNodes) :
           names \in DistinctSeqs(SourceFileNames \cup {NotesName, SrcDir, GitDir, NodeModulesDir},
                                  MaxSourceEntries)}

\* the analyzer after detectProjectType and analyzeDependencies have returned
InitScan ==
  /\ options = [runPerformanceAnalysis |-> TRUE, runBundleAnalysis |-> FALSE,
                generateReport |-> FALSE, outputFormat |-> "console"]
  /\ \E children \in SourceTrees, manifest \in {NoManifest} :
       /\ env = Environment(TRUE, children, manifest, TRUE)
       /\ perf = [NewPerformanceResults EXCEPT
                    !.projectType = DetectProjectType(manifest).projectType,
                    !.dependencyAnalysis = AnalyzeDependencies(manifest, None).dependencyAnalysis]
  /\ pc = "analyzeCodePatterns"
  /\ bundle = NewBundleResults
  /\ results = NewResults
  /\ written = {}
  /\ stderr = <<>>
  /\ topRecs = None
  /\ ran = <<"detectProjectType", "analyzeDependencies">>
  /\ exitCode = None
  /\ NoApplication

NextScan ==
  \/ AnalyzeCodePatternsPhase
  \/ AnalyzeBundleSizePhase
  \/ GenerateRecommendationsPhase
  \/ PrintReportPhase

SpecScan == InitScan /\ [][NextScan]_vars

(***************************************************************************)
(* BundleAnalyzer.analyze up to generateOptimizations over build           *)
(* directories dist/ and public/ with a bounded number of scripts          *)
(***************************************************************************)
MaxScripts == 4
MaxOtherScripts == 1

ScriptName(i) == <<"s" \o ToString(i), "js">>

\* the lists of at most n scripts, in directory order, each of one of sizes
RECURSIVE ScriptLists(_, _)
ScriptLists(n, sizes) ==
  IF n = 0 THEN {<<>>}
  ELSE LET shorter == ScriptLists(n - 1, sizes)
       IN  shorter \cup {Append(q, File(ScriptName(n), size, <<>>)) :
                           q \in {r \in shorter : Len(r) = n - 1}, size \in sizes}

\* pre-compressed siblings next to the scripts
CompressedFiles ==
  { <<>>,
    <<File(<<"s1", "js", "gz">>, 1000, <<>>)>>,
    <<File(<<"s1", "js", "br">>, 900, <<>>)>>,
    <<File(<<"s1", "js", "gz">>, 1000, <<>>), File(<<"s1", "js", "br">>, 900, <<>>)>> }

DistDirs ==
  {<<>>} \cup
  { <<Dir(<<"dist">>, TRUE, scripts \o compressed)>> :
      scripts \in ScriptLists(MaxScripts, {LargeScriptBytes, MB2}), compressed \in CompressedFiles }

PublicDirs ==
  {<<>>} \cup
  { <<Dir(<<"public">>, TRUE, scripts)>> : scripts \in ScriptLists(MaxOtherScripts, {MB2, 3 * MB2}) }

BundleManifests ==
  { NoManifest,
    Manifest("valid", <<"react">>, <<"webpack">>, Some({"webpack"}), FALSE),
    Manifest("valid", <<"vue">>, <<"rollup">>, None, TRUE) }

InitBundle ==
  /\ options = [runPerformanceAnalysis |-> FALSE, runBundleAnalysis |-> TRUE,
                generateReport |-> FALSE, outputFormat |-> "console"]
  /\ \E dist \in DistDirs, public \in PublicDirs, manifest \in BundleManifests :
       env = Environment(TRUE, dist \o public, manifest, TRUE)
  /\ pc = "detectBundler"
  /\ Fresh

NextBundle ==
  \/ DetectBundlerPhase
  \/ AnalyzeBuildOutputPhase
  \/ AnalyzeChunkingPhase
  \/ CheckTreeShakingPhase
  \/ CheckCompressionPhase
  \/ GenerateOptimizationsPhase

SpecBundle == InitBundle /\ [][NextBundle]_vars

(***************************************************************************)
(* Properties                                                              *)
(***************************************************************************)
Tagged(recs, source) ==
  [i \in 1..Len(recs) |->
     [source |-> source, category |-> recs[i].category,
      priority |-> recs[i].priority, issue |-> recs[i].issue]]

\* the recommendations in insertion order: the performance recommendations,
\* then the bundle optimizations
Inserted ==
  (IF IsSome(results.performance)
   THEN Tagged(Get(results.performance).recommendations, "Performance") ELSE <<>>)
  \o (IF IsSome(results.bundle)
      THEN Tagged(Get(results.bundle).optimizations, "Bundle") ELSE <<>>)

NumberOf(recs, priority) == Cardinality({i \in 1..Len(recs) : recs[i].priority = priority})

RawScoreOf(recs) == 100 - 15 * NumberOf(recs, "High") - 10 * NumberOf(recs, "Medium")
                        - 5 * NumberOf(recs, "Low")

\* C1: the score of the summary is max(0, 100 - 15*High - 10*Medium - 5*Low)
\* over the recommendations and optimizations passed to generateSummary: 100
\* for none, 85 for one High, 75 for one High and one Medium, and always an
\* integer in 0..100.
C1_ScoreFormula ==
  IsSome(results.summary) =>
    LET score == Get(results.summary).score
        recs == Inserted
        raw == RawScoreOf(recs)
    IN  /\ score = (IF raw < 0 THEN 0 ELSE raw)
        /\ score \in 0..100
        /\ (recs = <<>> => score = 100)
        /\ (Len(recs) = 1 /\ recs[1].priority = "High" => score = 85)
        /\ (Len(recs) = 2 /\ {recs[1].priority, recs[2].priority} = {"High", "Medium"}
              => score = 75)

\* a summary of so many findings that the floor applies
C1_Witness ==
  /\ IsSome(results.summary)
  /\ RawScoreOf(Inserted) < 0
  /\ Get(results.summary).score = 0
  /\ Get(results.summary).totalIssues = Len(Inserted)

PerformancePhaseNames ==
  {"detectProjectType", "analyzeDependencies", "analyzeCodePatterns", "analyzeBundleSize",
   "generateRecommendations", "printReport"}

BundlePhaseNames ==
  {"detectBundler", "analyzeBuildOutput", "analyzeChunking", "checkTreeShaking",
   "checkCompression", "generateOptimizations", "bundlePrintReport", "generateConfigs"}

\* C2: no failure halts the pipeline of an analyzer: once analyze() has
\* returned, every phase of that analyzer has run, the report included,
\* whichever phase failed.
C2_NoFailureHaltsPipeline ==
  /\ IsSome(results.performance) => PerformancePhaseNames \subseteq Range(ran)
  /\ IsSome(results.bundle) => BundlePhaseNames \subseteq Range(ran)

\* C3: with package.json absent or malformed, detectProjectType and
\* analyzeDependencies return normally and the project type is "unknown".
C3_ManifestFailsGracefully ==
  env.manifest.state \in {"absent", "malformed"} =>
    /\ ran # <<>> /\ Last(ran) = "detectProjectType" =>
         pc = "analyzeDependencies" /\ perf.projectType = "unknown"
    /\ ran # <<>> /\ Last(ran) = "analyzeDependencies" => pc = "analyzeCodePatterns"

\* C4: a run that fails to read the project root directory does not exit
\* with code 0: the failure aborts the run and the process exits non-zero.
C4_UnreadableRootExitsNonZero ==
  IsSome(exitCode) /\ ~env.root.readable /\ "analyzeCodePatterns" \in Range(ran) =>
    Get(exitCode) # 0

\* C5: with generateReport false (--no-report) the run writes no file.
C5_NoReportWritesNothing == ~options.generateReport => written = {}

\* C6: rendering leaves the result object as generateSummary computed it,
\* whatever the output format: after outputResults the summary, with its
\* recommendations in insertion order, is the one generateSummary returned.
C6_RenderingLeavesResultsUnchanged ==
  pc \in {"resolved", "rejected", "exited"} =>
    /\ results.summary = Some(GenerateSummary(results))
    /\ Get(results.summary).recommendations = Inserted

OfPriority(recs, priority) == SelectSeq(recs, LAMBDA r : r.priority = priority)

\* C7: the top recommendations of the console summary are the first 5 of the
\* summary recommendations ordered High, then Medium, then Low, those of equal
\* priority in insertion order.
C7_TopRecommendationsByPriorityStable ==
  IsSome(topRecs) =>
    LET recs == Inserted
        ordered == OfPriority(recs, "High") \o OfPriority(recs, "Medium") \o OfPriority(recs, "Low")
    IN  Get(topRecs) = SubSeq(ordered, 1, IF Len(ordered) < 5 THEN Len(ordered) ELSE 5)

\* more than 5 recommendations, inserted out of priority order, with two of
\* equal priority from the two analyzers among the top 5
C7_Witness ==
  /\ IsSome(topRecs)
  /\ Len(Inserted) > 5
  /\ Len(Get(topRecs)) = 5
  /\ Get(topRecs) # SubSeq(Inserted, 1, 5)
  /\ \E i \in 1..4 : /\ Get(topRecs)[i].priority = Get(topRecs)[i + 1].priority
                     /\ Get(topRecs)[i].source = "Performance"
                     /\ Get(topRecs)[i + 1].source = "Bundle"

\* the regular files under a node, by an independent listing of the tree
RECURSIVE FilesUnder(_, _)
FilesUnder(path, node) ==
  IF node.kind = "file" THEN {[path |-> path, size |-> node.size]}
  ELSE IF node.kind = "dir"
       THEN UNION {FilesUnder(Append(path, node.children[i].name), node.children[i]) :
                     i \in 1..Len(node.children)}
       ELSE {}

RECURSIVE TotalSizeOf(_)
TotalSizeOf(files) ==
  IF files = {} THEN 0
  ELSE LET f == CHOOSE f \in files : TRUE IN f.size + TotalSizeOf(files \ {f})

BuildFiles(b) == FilesUnder(<<b.dir>>, Child(env.root, b.dir))

Occurrences(infos, f) ==
  Cardinality({i \in 1..Len(infos) : infos[i].path = f.path /\ infos[i].size = f.size})

\* C8: for every build directory analysed, totalSize is the sum of the sizes
\* of the files under it, fileCount their number, and every file is in
\* exactly one of jsFiles, cssFiles, assetFiles, exactly once.
C8_TotalsMatchDiscoveredFiles ==
  \A k \in 1..Len(bundle.buildSize) :
    LET b == bundle.buildSize[k]
        a == b.analysis
        lists == a.jsFiles \o a.cssFiles \o a.assetFiles
    IN  /\ a.totalSize = TotalSizeOf(BuildFiles(b))
        /\ a.fileCount = Cardinality(BuildFiles(b))
        /\ \A f \in BuildFiles(b) : Occurrences(lists, f) = 1
        /\ a.fileCount = Len(a.jsFiles) + Len(a.cssFiles) + Len(a.assetFiles)

\* a build directory of two files, a script in a subdirectory and a style or
\* an asset, whose sizes add up
C8_Witness ==
  \E k \in 1..Len(bundle.buildSize) :
    LET a == bundle.buildSize[k].analysis
    IN  /\ a.fileCount = 2
        /\ Len(a.jsFiles) = 1 /\ Len(a.jsFiles[1].path) > 2
        /\ Len(a.cssFiles) + Len(a.assetFiles) = 1
        /\ a.totalSize = LargeFileBytes + MB2

SortedDescending(infos) == \A i, j \in 1..Len(infos) : i < j => infos[i].size >= infos[j].size

\* C9: in every build-directory summary, jsFiles, cssFiles, assetFiles and
\* largestFiles are each sorted in descending order of size.
C9_ListsSortedDescending ==
  \A k \in 1..Len(bundle.buildSize) :
    LET a == bundle.buildSize[k].analysis
    IN  /\ SortedDescending(a.jsFiles)
        /\ SortedDescending(a.cssFiles)
        /\ SortedDescending(a.assetFiles)
        /\ SortedDescending(a.largestFiles)

MaxChunkEntries == 2

VendorDir == <<"vendor">>

\* main.a1b2c3d.js has a segment of 7 hexadecimal characters
ChunkFileNames ==
  { <<"main", "js">>, <<"vendors", "js">>, <<"app", "chunk", "js">>, <<"commons", "js">>,
    <<"main", "a1b2c3d4", "js">>, <<"main", "a1b2c3d", "js">>, <<"style", "css">> }

ChunkSizes == {LargeEntryBytes, LargeEntryBytes + 1}

ChunkNodes ==
  [n \in ChunkFileNames \cup {VendorDir} |->
     IF n = VendorDir
     THEN {Dir(n, TRUE, <<File(<<"main", "js">>, size, <<>>)>>) : size \in ChunkSizes}
     ELSE {File(n, size, <<>>) : size \in ChunkSizes}]

ChunkTrees ==
  UNION {Fill(names, ChunkNodes) :
           names \in DistinctSeqs(ChunkFileNames \cup {VendorDir}, MaxChunkEntries)}

InitChunks ==
  /\ options = [runPerformanceAnalysis |-> FALSE, runBundleAnalysis |-> TRUE,
                generateReport |-> FALSE, outputFormat |-> "console"]
  /\ \E entries \in ChunkTrees :
       env = Environment(TRUE, <<Dir(<<"dist">>, TRUE, entries)>>, NoManifest, TRUE)
  /\ pc = "analyzeBuildOutput"
  /\ perf = NewPerformanceResults
  /\ bundle = NewBundleResults
  /\ results = NewResults
  /\ written = {}
  /\ stderr = <<>>
  /\ topRecs = None
  /\ ran = <<"detectBundler">>
  /\ exitCode = None
  /\ NoApplication

NextChunks == AnalyzeBuildOutputPhase \/ AnalyzeChunkingPhase

SpecChunks == InitChunks /\ [][NextChunks]_vars

(***************************************************************************)
(* both analyzers up to their recommendations, over projects in which      *)
(* each rule's condition holds or not                                      *)
(***************************************************************************)
\* a source file larger than 100000 bytes, or none
LargeSources == {<<>>, <<File(<<"app", "js">>, LargeSourceBytes + 1, <<>>)>>}

\* a source file with 10 or 11 lines of inline style, or none
StyledSources ==
  {<<>>, <<File(<<"util", "ts">>, 500, SubSeq(StyledLines, 1, 10))>>,
   <<File(<<"util", "ts">>, 500, StyledLines)>>}

\* a source file with two console lines, or none
ConsoleSources == {<<>>, <<File(<<"log", "js">>, 40, ConsoleTwice)>>}

RuleManifests ==
  {NoManifest,
   Manifest("valid", <<"lodash">>, <<>>, None, FALSE),
   Manifest("valid", <<"react", "moment">>, <<>>, None, FALSE),
   Manifest("valid", <<"vue">>, <<>>, None, FALSE),
   Manifest("valid", <<"@angular/core">>, <<>>, None, FALSE),
   Manifest("valid", <<"svelte">>, <<>>, None, FALSE)}

InitRulesPerformance ==
  /\ options = [runPerformanceAnalysis |-> TRUE, runBundleAnalysis |-> FALSE,
                generateReport |-> FALSE, outputFormat |-> "console"]
  /\ \E large \in LargeSources, styled \in StyledSources, console \in ConsoleSources,
        manifest \in RuleManifests :
       env = Environment(TRUE, large \o styled \o console, manifest, TRUE)
  /\ pc = "detectProjectType"
  /\ Fresh

InitRules == InitRulesPerformance \/ InitBundle

NextRules == NextManifest \/ NextScan \/ NextBundle

SpecRules == InitRules /\ [][NextRules]_vars


\* the decision table of framework detection, in priority order
FrameworkTable ==
  << [label |-> "React", names |-> {"react"}],
     [label |-> "Vue", names |-> {"vue", "@vue/cli-service"}],
     [label |-> "Angular", names |-> {"@angular/core"}],
     [label |-> "Next.js", names |-> {"next"}],
     [label |-> "Svelte", names |-> {"svelte"}] >>

FrameworkLabels == {FrameworkTable[i].label : i \in 1..Len(FrameworkTable)}

AllDeclared == Range(env.manifest.dependencies) \cup Range(env.manifest.devDependencies)

Matching == {i \in 1..Len(FrameworkTable) : FrameworkTable[i].names \cap AllDeclared # {}}

\* C11: once detectProjectType has returned for a manifest, the project type
\* is the label of the first entry of the table React, Vue, Angular, Next.js,
\* Svelte that matches a declared dependency or devDependency, and with no
\* match it is the default, never a framework name.
C11_FrameworkByFixedPriority ==
  env.manifest.state = "valid" /\ "detectProjectType" \in Range(ran) =>
    IF Matching = {}
    THEN perf.projectType = "JavaScript" /\ perf.projectType \notin FrameworkLabels
    ELSE perf.projectType = FrameworkTable[CHOOSE i \in Matching : \A j \in Matching : i <= j].label

\* next declared in dependencies and react in devDependencies: React wins
C11_Witness ==
  /\ "detectProjectType" \in Range(ran)
  /\ env.manifest.dependencies = <<"next">>
  /\ env.manifest.devDependencies = <<"react">>
  /\ perf.projectType = "React"

GroupMembers(names, g) == Range(names) \cap DuplicateGroups[g]

Findings == Get(perf.dependencyAnalysis).duplicateDependencies

FindingsOf(g) == {k \in 1..Len(Findings) : Range(Findings[k]) \cap DuplicateGroups[g] # {}}

\* C12 as stated: a group is reported if and only if two or more of its
\* members are declared in the manifest (dependencies or devDependencies),
\* exactly once, listing exactly the declared members.
C12_DuplicateGroupsOfDeclared ==
  IsSome(perf.dependencyAnalysis) =>
    \A g \in 1..Len(DuplicateGroups) :
      LET declared == GroupMembers(env.manifest.dependencies \o env.manifest.devDependencies, g)
      IN  IF Cardinality(declared) >= 2
          THEN /\ Cardinality(FindingsOf(g)) = 1
               /\ \A k \in FindingsOf(g) : Range(Findings[k]) = declared
          ELSE FindingsOf(g) = {}

\* C12 amended: a group is reported if and only if two or more of its
\* members are declared in the manifest's dependencies (devDependencies are
\* not looked at), exactly once, listing exactly those members, each once.
C12_DuplicateGroupsOfDependencies ==
  IsSome(perf.dependencyAnalysis) =>
    \A g \in 1..Len(DuplicateGroups) :
      LET declared == GroupMembers(env.manifest.dependencies, g)
      IN  IF Cardinality(declared) >= 2
          THEN /\ Cardinality(FindingsOf(g)) = 1
               /\ \A k \in FindingsOf(g) :
                     /\ Range(Findings[k]) = declared
                     /\ Len(Findings[k]) = Cardinality(declared)
          ELSE FindingsOf(g) = {}

\* moment and date-fns declared in dependencies: one finding with both
C12_Witness ==
  /\ IsSome(perf.dependencyAnalysis)
  /\ Range(env.manifest.dependencies) = {"moment", "date-fns"}
  /\ Len(Findings) = 1
  /\ Range(Findings[1]) = {"moment", "date-fns"}

\* the source files findFiles is to return, by an independent listing of the
\* tree: the regular files with a recognised extension that are not beneath
\* a directory whose name starts with '.' or is node_modules
RECURSIVE SourceFilesUnder(_, _)
SourceFilesUnder(path, node) ==
  IF node.kind = "file"
  THEN IF Len(node.name) >= 2 /\ node.name[1] # "" /\ Last(node.name) \in {"js", "jsx", "ts", "tsx", "vue", "svelte"}
       THEN {path} ELSE {}
  ELSE IF node.kind = "dir"
       THEN UNION {SourceFilesUnder(Append(path, node.children[i].name), node.children[i]) :
                     i \in {j \in 1..Len(node.children) :
                              LET c == node.children[j]
                              IN  ~(c.kind = "dir" /\ (c.name[1] = "" \/ c.name = <<"node_modules">>))}}
       ELSE {}

EligibleSourceFiles == SourceFilesUnder(<<env.root.name>>, env.root)

NodeAt(abs) == Get(Lookup(env.root, abs))

ConsoleLines(abs) ==
  {l \in 1..Len(NodeAt(abs).content) : "console." \in NodeAt(abs).content[l].has}

Scanned == {f \in EligibleSourceFiles : NodeAt(f).readable}

CodeIssues == Get(perf.codeAnalysis).inefficientPatterns

IsDebugPrintIssue(e) == e.issue # "DOM manipulation in component"

\* C13: the scan reports one debug-print issue entry per line that holds a
\* console statement, with the file and the 1-based number of that line, and
\* no other debug-print entry.
C13_DebugPrintIssuePerLine ==
  IsSome(perf.codeAnalysis) =>
    /\ \A f \in Scanned : \A l \in ConsoleLines(f) :
         Cardinality({k \in 1..Len(CodeIssues) :
                        /\ IsDebugPrintIssue(CodeIssues[k])
                        /\ CodeIssues[k].file = Relative(f)
                        /\ CodeIssues[k].line = l}) = 1
    /\ \A k \in 1..Len(CodeIssues) :
         IsDebugPrintIssue(CodeIssues[k]) =>
           \E f \in Scanned : CodeIssues[k].file = Relative(f) /\ CodeIssues[k].line \in ConsoleLines(f)

\* the sum of the values of the function count over the set S
RECURSIVE SumOver(_, _)
SumOver(S, count) ==
  IF S = {} THEN 0 ELSE LET x == CHOOSE x \in S : TRUE IN count[x] + SumOver(S \ {x}, count)

InlineStyleLinesOf(abs) ==
  Cardinality({l \in 1..Len(NodeAt(abs).content) :
                 NodeAt(abs).content[l].has \cap {"style={{", "style=\"{"} # {}})

ConsoleLinesOf(abs) == Cardinality(ConsoleLines(abs))

SomeFileFailed == \E f \in EligibleSourceFiles : ~NodeAt(f).readable

\* C14: when the walk has returned its list and a file of it cannot be read,
\* only that file is skipped: the counters are those of all the other files,
\* the large files among them are all listed, codeAnalysis is stored, and
\* analyzeBundleSize, generateRecommendations and printReport run.
C14_FailedFileSkippedOnly ==
  ~FindFiles(env.root).threw /\ SomeFileFailed /\ pc # "analyzeCodePatterns" =>
    /\ IsSome(perf.codeAnalysis)
    /\ Get(perf.codeAnalysis).consoleStatements = SumOver(Scanned, [f \in Scanned |-> ConsoleLinesOf(f)])
    /\ Get(perf.codeAnalysis).inlineStyles = SumOver(Scanned, [f \in Scanned |-> InlineStyleLinesOf(f)])
    /\ {Get(perf.codeAnalysis).largeFiles[k].file : k \in 1..Len(Get(perf.codeAnalysis).largeFiles)}
         = {Relative(f) : f \in {g \in Scanned : NodeAt(g).size > 100000}}
    /\ stderr = <<>>
    /\ pc = "performanceDone" =>
         {"analyzeBundleSize", "generateRecommendations", "printReport"} \subseteq Range(ran)

\* a file that cannot be read comes before a file with two console lines,
\* and the run has reached the end of the analyzer
C14_Witness ==
  /\ pc = "performanceDone"
  /\ Len(env.root.children) = 2
  /\ env.root.children[1].kind = "file" /\ ~env.root.children[1].readable
  /\ env.root.children[1].name = <<"app", "js">>
  /\ env.root.children[2].name = <<"util", "ts">>
  /\ IsSome(perf.codeAnalysis)
  /\ Get(perf.codeAnalysis).consoleStatements = 2
  /\ "printReport" \in Range(ran)

\* C15: for every directory tree findFiles returns exactly the regular files
\* with a recognised extension that are not beneath a directory whose name
\* starts with '.' or is node_modules, each once.
C15_FindFilesReturnsEligibleFiles ==
  "analyzeCodePatterns" \in Range(ran) =>
    LET got == FindFiles(env.root)
        files == IF got.threw THEN <<>> ELSE got.files
    IN  /\ Range(files) = EligibleSourceFiles
        /\ Len(files) = Cardinality(EligibleSourceFiles)

SomeDirectoryUnreadable ==
  \E i \in 1..Len(env.root.children) :
    LET c == env.root.children[i]
    IN  c.kind = "dir" /\ ~c.readable /\ c.name[1] # "" /\ c.name # <<"node_modules">>

\* C16: when a subdirectory cannot be read the walk is not aborted: the
\* analysis of the files of the other directories is stored and no failure
\* of the analyzer is printed.
C16_UnreadableSubdirectorySkipped ==
  /\ SomeDirectoryUnreadable /\ EligibleSourceFiles # {}
  /\ env.root.readable /\ "analyzeCodePatterns" \in Range(ran)
  =>
    /\ IsSome(perf.codeAnalysis)
    /\ stderr = <<>>

Optimizations == bundle.optimizations

OfCategory(category) == {k \in 1..Len(Optimizations) : Optimizations[k].category = category}

\* the per-file optimizations for the scripts of a build directory
CodeSplittingOf(dir) == {k \in OfCategory("Code Splitting") : Optimizations[k].issue[2] = dir}

\* C17 as stated: a run holds at most 3 per-file 'Code Splitting'
\* optimizations, each High and for a script larger than 1 MB, however many
\* build directories and oversized scripts there are.
C17_AtMostThreePerRun ==
  "generateOptimizations" \in Range(ran) =>
    /\ Cardinality(OfCategory("Code Splitting")) <= 3
    /\ \A k \in OfCategory("Code Splitting") : Optimizations[k].priority = "High"

\* C17 amended: for each build directory there is one High 'Code Splitting'
\* optimization for each script larger than 1 MB among the first 3 scripts of
\* that directory by descending size, and no other, so at most 3 for each
\* build directory.
C17_AtMostThreePerBuildDirectory ==
  "generateOptimizations" \in Range(ran) =>
    /\ \A i \in 1..Len(bundle.buildSize) :
         LET b == bundle.buildSize[i]
             js == b.analysis.jsFiles
             offending == {j \in 1..Len(js) : j <= 3 /\ js[j].size > 1000000}
         IN  /\ Cardinality(CodeSplittingOf(b.dir)) = Cardinality(offending)
             /\ Cardinality(CodeSplittingOf(b.dir)) <= 3
             /\ \A j \in offending :
                   \E k \in CodeSplittingOf(b.dir) :
                     /\ Optimizations[k].issue = <<"Large JavaScript file:">> \o js[j].path
                     /\ Optimizations[k].priority = "High"
             /\ \A j, l \in 1..Len(js) : j < l => js[j].size >= js[l].size
    /\ \A k \in OfCategory("Code Splitting") :
         \E i \in 1..Len(bundle.buildSize) : k \in CodeSplittingOf(bundle.buildSize[i].dir)

\* dist/ holds four scripts larger than 1 MB: three optimizations for it
C17_Witness ==
  /\ "generateOptimizations" \in Range(ran)
  /\ \E i \in 1..Len(bundle.buildSize) :
       /\ bundle.buildSize[i].dir = <<"dist">>
       /\ Cardinality({j \in 1..Len(bundle.buildSize[i].analysis.jsFiles) :
                         bundle.buildSize[i].analysis.jsFiles[j].size > 1000000}) = 4
  /\ Cardinality(CodeSplittingOf(<<"dist">>)) = 3

\* the files of every build directory found, by an independent listing
DiscoveredBuildFiles == UNION {BuildFiles(bundle.buildSize[k]) : k \in 1..Len(bundle.buildSize)}

Emitted(category, priority, issue) ==
  Cardinality({k \in 1..Len(Optimizations) :
                 Optimizations[k] = Rec(category, priority, issue)})

\* C19: compression.gzip is true iff some discovered build file ends in .gz,
\* compression.brotli iff some ends in .br, and the Medium gzip optimization
\* (the Low brotli one) is emitted exactly when its flag is false, also when
\* there is no build directory.
C19_CompressionFromAllBuildFiles ==
  /\ "checkCompression" \in Range(ran) =>
       /\ IsSome(bundle.compression)
       /\ Get(bundle.compression).gzip <=>
            \E f \in DiscoveredBuildFiles : EndsWith(f.path, "gz")
       /\ Get(bundle.compression).brotli <=>
            \E f \in DiscoveredBuildFiles : EndsWith(f.path, "br")
  /\ "generateOptimizations" \in Range(ran) =>
       /\ Emitted("Compression", "Medium", <<"Gzip compression not enabled">>) =
            (IF Get(bundle.compression).gzip THEN 0 ELSE 1)
       /\ Emitted("Compression", "Low", <<"Brotli compression not enabled">>) =
            (IF Get(bundle.compression).brotli THEN 0 ELSE 1)
       /\ Cardinality(OfCategory("Compression")) =
            (IF Get(bundle.compression).gzip THEN 0 ELSE 1)
            + (IF Get(bundle.compression).brotli THEN 0 ELSE 1)

\* a build directory with a .gz file and no .br file: gzip found, and only
\* the brotli optimization emitted
C19_Witness ==
  /\ "generateOptimizations" \in Range(ran)
  /\ \E f \in DiscoveredBuildFiles : EndsWith(f.path, "gz")
  /\ ~ \E f \in DiscoveredBuildFiles : EndsWith(f.path, "br")
  /\ Get(bundle.compression).gzip /\ ~Get(bundle.compression).brotli
  /\ Emitted("Compression", "Medium", <<"Gzip compression not enabled">>) = 0
  /\ Emitted("Compression", "Low", <<"Brotli compression not enabled">>) = 1

Recommendations == perf.recommendations

\* the rules of generateRecommendations in their order, framework-specific last
PerformanceRank(rec) ==
  CASE rec.category = "Dependencies" -> 1
    [] rec.category = "Code Splitting" -> 2
    [] rec.category = "Styling" -> 3
    [] rec.category = "Production" -> 4
    [] OTHER -> 5

\* the rules of generateOptimizations in their order, bundler-specific last
BundleRank(rec) ==
  CASE rec.category = "Bundle Size" -> 1
    [] rec.category = "Code Splitting" -> 2
    [] rec.category = "Tree Shaking" -> 3
    [] rec.category = "Compression" /\ rec.priority = "Medium" -> 4
    [] rec.category = "Compression" -> 5
    [] OTHER -> 6

Recommended(category, priority) ==
  Cardinality({k \in 1..Len(Recommendations) :
                 Recommendations[k].category = category /\ Recommendations[k].priority = priority})

Optimized(category, priority) ==
  Cardinality({k \in 1..Len(Optimizations) :
                 Optimizations[k].category = category /\ Optimizations[k].priority = priority})

Once(condition) == IF condition THEN 1 ELSE 0

\* each rule of generateRecommendations fires iff its own condition holds,
\* and the entries are in the order of the rules
PerformanceRulesIndependent ==
  "generateRecommendations" \in Range(ran) =>
    /\ Recommended("Dependencies", "High") =
         Once(IsSome(perf.dependencyAnalysis)
              /\ Get(perf.dependencyAnalysis).heavyDependencies # <<>>)
    /\ Recommended("Code Splitting", "High") = Once(Get(perf.codeAnalysis).largeFiles # <<>>)
    /\ Recommended("Styling", "Medium") = Once(Get(perf.codeAnalysis).inlineStyles > 10)
    /\ Recommended("Production", "Medium") = Once(Get(perf.codeAnalysis).consoleStatements > 0)
    /\ \A framework \in {"React", "Vue", "Angular"} :
         Recommended(framework \o " Optimization", "Medium") = Once(perf.projectType = framework)
    /\ Len(Recommendations) <= 5
    /\ \A i, j \in 1..Len(Recommendations) :
         i < j => PerformanceRank(Recommendations[i]) < PerformanceRank(Recommendations[j])

\* each rule of generateOptimizations fires iff its own condition holds
BundleRulesIndependent ==
  "generateOptimizations" \in Range(ran) =>
    /\ \A i \in 1..Len(bundle.buildSize) :
         LET b == bundle.buildSize[i]
         IN  /\ Cardinality({k \in OfCategory("Bundle Size") : Optimizations[k].issue[2] = b.dir})
                  = Once(b.analysis.totalSize > 5000000)
             /\ Cardinality(CodeSplittingOf(b.dir)) =
                  Cardinality({j \in 1..Len(b.analysis.jsFiles) :
                                 j <= 3 /\ b.analysis.jsFiles[j].size > 1000000})
    /\ \A k \in OfCategory("Bundle Size") \cup OfCategory("Code Splitting") :
         \E i \in 1..Len(bundle.buildSize) : Optimizations[k].issue[2] = bundle.buildSize[i].dir
    /\ Optimized("Tree Shaking", "Medium") = Once(~Get(bundle.treeshaking).enabled)
    /\ Optimized("Compression", "Medium") = Once(~Get(bundle.compression).gzip)
    /\ Optimized("Compression", "Low") = Once(~Get(bundle.compression).brotli)
    /\ Optimized("Webpack", "Medium") = Once(BundlerName(bundle.bundler) = "webpack")
    /\ Optimized("Vite", "Low") = Once(BundlerName(bundle.bundler) = "vite")
    /\ Optimized("Rollup", "Medium") = Once(BundlerName(bundle.bundler) = "rollup")
    /\ \A k \in 1..Len(Optimizations) :
         Optimizations[k].category \in {"Bundle Size", "Code Splitting", "Tree Shaking",
                                        "Compression", "Webpack", "Vite", "Rollup"}

\* the position of a build directory in the order the directories are analysed
DirectoryIndex(dir) == CHOOSE i \in 1..Len(bundle.buildSize) : bundle.buildSize[i].dir = dir

\* the build directory an entry is about, the rules after the directories last
GroupOf(rec) ==
  IF BundleRank(rec) <= 2 THEN DirectoryIndex(rec.issue[2]) ELSE Len(bundle.buildSize) + 1

\* C18 as stated: each rule fires iff its own condition holds, and the
\* entries appear in the fixed rule order (bundle: Bundle Size, per-file Code
\* Splitting, Tree Shaking, gzip, brotli, bundler-specific; performance:
\* Dependencies, Code Splitting, Styling, Production, framework-specific).
C18_RulesInFixedOrder ==
  /\ PerformanceRulesIndependent
  /\ BundleRulesIndependent
  /\ "generateOptimizations" \in Range(ran) =>
       \A i, j \in 1..Len(Optimizations) :
         i < j => BundleRank(Optimizations[i]) <= BundleRank(Optimizations[j])

\* C18 amended: each rule fires iff its own condition holds; the bundle
\* entries are, for each build directory in turn, its Bundle Size entry and
\* then its per-file Code Splitting entries, followed by Tree Shaking, gzip,
\* brotli and bundler-specific; the performance entries are in rule order.
C18_RulesInOrderPerBuildDirectory ==
  /\ PerformanceRulesIndependent
  /\ BundleRulesIndependent
  /\ "generateOptimizations" \in Range(ran) =>
       \A i, j \in 1..Len(Optimizations) :
         i < j =>
           \/ GroupOf(Optimizations[i]) < GroupOf(Optimizations[j])
           \/ /\ GroupOf(Optimizations[i]) = GroupOf(Optimizations[j])
              /\ BundleRank(Optimizations[i]) <= BundleRank(Optimizations[j])

\* two build directories, each with a Bundle Size entry followed by its
\* Code Splitting entries, and entries of the rules after them
C18_Witness ==
  /\ "generateOptimizations" \in Range(ran)
  /\ Len(bundle.buildSize) = 2
  /\ Cardinality(OfCategory("Bundle Size")) = 2
  /\ Cardinality(OfCategory("Code Splitting")) = 4
  /\ Optimized("Tree Shaking", "Medium") = 0
  /\ Optimized("Compression", "Low") = 1

\* the phases of PerformanceAnalyzer that read package.json when it exists
PerformanceManifestReaders == {"detectProjectType", "analyzeDependencies", "analyzeBundleSize"}

\* BundleAnalyzer has read package.json: detectBundler when no configuration
\* file of a bundler was found, checkTreeShaking always, if the file exists
BundleReadManifest ==
  /\ env.manifest.state # "absent"
  /\ \/ "checkTreeShaking" \in Range(ran)
     \/ /\ "detectBundler" \in Range(ran)
        /\ IsSome(bundle.bundler) => ~Get(bundle.bundler).hasConfig

ManifestInspected ==
  \/ BundleReadManifest
  \/ env.manifest.state # "absent" /\ Range(ran) \cap PerformanceManifestReaders # {}

SummarySources ==
  IF IsSome(results.summary)
  THEN {Get(results.summary).recommendations[k].source :
          k \in 1..Len(Get(results.summary).recommendations)}
  ELSE {}

NoBundleAnalysis ==
  /\ results.bundle = None
  /\ Range(ran) \cap BundlePhaseNames = {}
  /\ "Bundle" \notin SummarySources

NoPerformanceAnalysis ==
  /\ results.performance = None
  /\ Range(ran) \cap PerformancePhaseNames = {}
  /\ "Performance" \notin SummarySources

\* C20 as stated: with --performance-only results.bundle stays null and no
\* bundle optimization reaches the summary; with --bundle-only
\* results.performance stays null, the manifest is not inspected and no
\* performance recommendation reaches the summary.
C20_SkippedAnalysisLeavesManifestAlone ==
  /\ ~options.runBundleAnalysis => NoBundleAnalysis
  /\ ~options.runPerformanceAnalysis => NoPerformanceAnalysis /\ ~ManifestInspected

\* C20 amended: as stated, except that with --bundle-only it is no phase of
\* the manifest and code-pattern analysis that runs; the build-output
\* analysis may read the manifest.
C20_SkippedAnalysisDoesNotRun ==
  /\ ~options.runBundleAnalysis => NoBundleAnalysis
  /\ ~options.runPerformanceAnalysis => NoPerformanceAnalysis

\* a --bundle-only run whose summary holds bundle optimizations only, and a
\* manifest the build-output analysis has read
C20_Witness ==
  /\ ~options.runPerformanceAnalysis /\ options.runBundleAnalysis
  /\ IsSome(results.summary)
  /\ SummarySources = {"Bundle"}
  /\ results.performance = None
  /\ IsSome(results.bundle)
  /\ BundleReadManifest

\* the section of results each phase assigns; the printing phases assign none
SectionOf ==
  [phase \in PerformancePhaseNames \cup BundlePhaseNames |->
     CASE phase = "detectProjectType" -> "projectType"
       [] phase = "analyzeDependencies" -> "dependencyAnalysis"
       [] phase = "analyzeCodePatterns" -> "codeAnalysis"
       [] phase = "analyzeBundleSize" -> "bundleAnalysis"
       [] phase = "generateRecommendations" -> "recommendations"
       [] phase = "detectBundler" -> "bundler"
       [] phase = "analyzeBuildOutput" -> "buildSize"
       [] phase = "analyzeChunking" -> "chunkAnalysis"
       [] phase = "checkTreeShaking" -> "treeshaking"
       [] phase = "checkCompression" -> "compression"
       [] phase = "generateOptimizations" -> "optimizations"
       [] OTHER -> "none"]

\* C21: every phase of PerformanceAnalyzer.analyze and of
\* BundleAnalyzer.analyze changes at most its own section of results: every
\* other section, in particular every one written by an earlier phase, is
\* the same after the phase as before it.
C21_PhasesWriteOwnSectionOnly ==
  [][\A phase \in PerformancePhaseNames \cup BundlePhaseNames :
       ran' = Append(ran, phase) =>
         /\ \A key \in DOMAIN perf \ {SectionOf[phase]} : perf'[key] = perf[key]
         /\ \A key \in DOMAIN bundle \ {SectionOf[phase]} : bundle'[key] = bundle[key]]_vars

\* both analyzers have run to their last writing phase, each over sections
\* written by earlier phases
C21_Witness ==
  /\ "generateRecommendations" \in Range(ran)
  /\ "generateOptimizations" \in Range(ran)
  /\ perf.projectType = "React"
  /\ IsSome(perf.dependencyAnalysis) /\ IsSome(perf.codeAnalysis) /\ IsSome(perf.bundleAnalysis)
  /\ perf.recommendations # <<>>
  /\ bundle.buildSize # <<>>
  /\ IsSome(bundle.chunkAnalysis) /\ IsSome(bundle.treeshaking) /\ IsSome(bundle.compression)
  /\ bundle.optimizations # <<>>

RenderingNames == {"outputConsole", "outputJSON", "outputHTML"}

\* the position of a phase in the order of the awaits of analyze and runComplete
PhaseOrder ==
  <<"detectProjectType", "analyzeDependencies", "analyzeCodePatterns", "analyzeBundleSize",
    "generateRecommendations", "printReport",
    "detectBundler", "analyzeBuildOutput", "analyzeChunking", "checkTreeShaking",
    "checkCompression", "generateOptimizations", "bundlePrintReport", "generateConfigs",
    "generateSummary">>

PhaseRank(phase) ==
  IF phase \in RenderingNames THEN Len(PhaseOrder) + 1
  ELSE CHOOSE i \in 1..Len(PhaseOrder) : PhaseOrder[i] = phase

Entered(phases) == Range(ran) \cap phases # {}

\* C22: the phases of a run are entered one after the other in the order of
\* the code, none twice; an analyzer generates its recommendations only
\* after all its earlier phases, the bundle analyzer starts only after the
\* performance analyzer has returned, generateSummary runs only after the
\* enabled analyzers have returned, and rendering only after generateSummary.
C22_PhasesStrictlySequential ==
  /\ \A i, j \in 1..Len(ran) : i < j => PhaseRank(ran[i]) < PhaseRank(ran[j])
  /\ "generateRecommendations" \in Range(ran) =>
       {"detectProjectType", "analyzeDependencies", "analyzeCodePatterns", "analyzeBundleSize"}
         \subseteq Range(ran)
  /\ "generateOptimizations" \in Range(ran) =>
       {"detectBundler", "analyzeBuildOutput", "analyzeChunking", "checkTreeShaking",
        "checkCompression"} \subseteq Range(ran)
  /\ Entered(BundlePhaseNames) =>
       (options.runPerformanceAnalysis => IsSome(results.performance))
  /\ "generateSummary" \in Range(ran) =>
       /\ options.runPerformanceAnalysis => IsSome(results.performance)
       /\ options.runBundleAnalysis => IsSome(results.bundle)
  /\ Entered(RenderingNames) => IsSome(results.summary)

\* a run of both analyzers through every phase, summarised and rendered
C22_Witness ==
  /\ Len(ran) = Len(PhaseOrder) + 1
  /\ Entered(RenderingNames)
  /\ pc = "resolved"

DiscoveredScripts == {f \in DiscoveredBuildFiles : ExtName(Last(f.path)) \in ScriptExts}

\* the file name has 'chunk', 'vendor' or 'common' in it, or a segment of at
\* least 8 hexadecimal characters right before .js
NamedAsChunk(f) ==
  LET name == Last(f.path)
  IN  \/ \E word \in {"chunk", "vendor", "common"} : NameIncludes(name, word)
      \/ /\ Len(name) >= 3
         /\ name[Len(name)] = "js"
         /\ IsHexHash(name[Len(name) - 1])

Flagged ==
  {Get(bundle.chunkAnalysis).recommendations[i].file :
     i \in 1..Len(Get(bundle.chunkAnalysis).recommendations)}

\* C23: every script of the build output larger than 500 KB and not named as
\* a chunk is flagged in chunkAnalysis.recommendations, no script named as a
\* chunk is flagged, and hasCodeSplitting is true exactly when some script
\* is named as a chunk.
C23_LargeEntryScriptsFlagged ==
  "analyzeChunking" \in Range(ran) =>
    /\ \A f \in DiscoveredScripts :
         /\ (f.size > 500000 /\ ~NamedAsChunk(f)) => f.path \in Flagged
         /\ NamedAsChunk(f) => f.path \notin Flagged
    /\ Get(bundle.chunkAnalysis).hasCodeSplitting <=> \E f \in DiscoveredScripts : NamedAsChunk(f)
    /\ \A i \in 1..Len(Get(bundle.chunkAnalysis).recommendations) :
         Get(bundle.chunkAnalysis).recommendations[i].type = "code-splitting"

\* a large entry script next to a large chunk: only the entry script flagged
C23_Witness ==
  /\ "analyzeChunking" \in Range(ran)
  /\ \E f, g \in DiscoveredScripts :
       /\ f.size > 500000 /\ ~NamedAsChunk(f)
       /\ g.size > 500000 /\ NamedAsChunk(g)
       /\ Flagged = {f.path}
  /\ Get(bundle.chunkAnalysis).hasCodeSplitting

(***************************************************************************)
(* PerformanceMonitor (performance-monitor.js) in a page: start, stop, and *)
(* the events of the page that reach the handlers the monitor registered   *)
(***************************************************************************)
DefaultReportInterval == 30000

\* options.reportInterval || 30000
OrDefault(given) ==
  IF given = None \/ Get(given) = 0 THEN DefaultReportInterval ELSE Get(given)

\* a bug that leaves out the spread of options: 0 becomes the default
ReportIntervalWithoutSpread(given) == OrDefault(given)

\* options.reportInterval of the constructor: options.reportInterval ||
\* 30000, then overwritten by ...options when the key was given
ReportInterval(given) == IF IsSome(given) THEN Get(given) ELSE OrDefault(given)

\* the constructor; given.enable are the enable flags after `!== false`
NewMonitor(given) ==
  [given |-> given,
   options |-> [reportInterval |-> ReportInterval(given.reportInterval),
                enableWebVitals |-> given.enableWebVitals,
                enableResourceTiming |-> given.enableResourceTiming,
                enableLongTasks |-> given.enableLongTasks],
   metrics |-> 0,
   observers |-> <<>>,
   isRunning |-> FALSE,
   reportTimer |-> None]

\* a page: whether it has PerformanceObserver, the entry types observe()
\* throws for, and whether there is a navigation entry
NewBrowser(hasPerformanceObserver, unsupported, hasNavigation) ==
  [hasPerformanceObserver |-> hasPerformanceObserver,
   unsupported |-> unsupported,
   hasNavigation |-> hasNavigation,
   observing |-> <<>>,           \* entry types of the connected observers
   timers |-> {},                \* active intervals: [id, period]
   nextTimer |-> 1,
   visibilityListener |-> FALSE, \* handleVisibilityChange on document
   loadListeners |-> 0,          \* closures on window 'load'
   loaded |-> FALSE,
   timeouts |-> 0,               \* setTimeout(..., 0) callbacks not yet run
   visibilityState |-> "visible",
   reports |-> 0,                \* 'performance-report' events dispatched
   last |-> "new"]               \* the call or event handled last

\* observeLCP, observeFID, observeCLS, initResourceTiming, initLongTasks:
\* the entry types whose observer is created, connected and pushed
Observed(m, b) ==
  LET wanted == (IF m.options.enableWebVitals
                 THEN <<"largest-contentful-paint", "first-input", "layout-shift">> ELSE <<>>)
                \o (IF m.options.enableResourceTiming THEN <<"resource">> ELSE <<>>)
                \o (IF m.options.enableLongTasks THEN <<"longtask">> ELSE <<>>)
  IN  IF b.hasPerformanceObserver
      THEN SelectSeq(wanted, LAMBDA type : type \notin b.unsupported)
      ELSE <<>>

\* measureTTFB: one metric when there is a navigation entry
MeasuredAtStart(m, b) == IF m.options.enableWebVitals /\ b.hasNavigation THEN 1 ELSE 0

MaxStarts == 2
MaxMetrics == 2
MaxReports == 2

Starts == browser.loadListeners

\* a bug that starts again while running
StartUnguarded ==
  /\ Starts < MaxStarts
  /\ LET types == Observed(monitor, browser)
         timed == monitor.options.reportInterval > 0
     IN  /\ monitor' = [monitor EXCEPT
                          !.isRunning = TRUE,
                          !.observers = @ \o types,
                          !.metrics = @ + MeasuredAtStart(monitor, browser),
                          !.reportTimer = IF timed THEN Some(browser.nextTimer) ELSE @]
         /\ browser' = [browser EXCEPT
                          !.observing = @ \o types,
                          !.visibilityListener = TRUE,
                          !.timers = IF timed
                                     THEN @ \cup {[id |-> browser.nextTimer,
                                                    period |-> monitor.options.reportInterval]}
                                     ELSE @,
                          !.nextTimer = IF timed THEN @ + 1 ELSE @,
                          !.loadListeners = @ + 1,
                          !.last = "start"]
  /\ UNCHANGED <<analysis, chat, employees, aiChat>>

\* PerformanceMonitor.start
Start ==
  /\ IF monitor.isRunning
     THEN /\ browser' = [browser EXCEPT !.last = "start"]
          /\ UNCHANGED monitor
     ELSE /\ Starts < MaxStarts
          /\ LET types == Observed(monitor, browser)
                 timed == monitor.options.reportInterval > 0
             IN  /\ monitor' = [monitor EXCEPT
                                  !.isRunning = TRUE,
                                  !.observers = @ \o types,
                                  !.metrics = @ + MeasuredAtStart(monitor, browser),
                                  !.reportTimer = IF timed THEN Some(browser.nextTimer) ELSE @]
                 /\ browser' = [browser EXCEPT
                                  !.observing = @ \o types,
                                  !.visibilityListener = TRUE,
                                  !.timers = IF timed
                                             THEN @ \cup {[id |-> browser.nextTimer,
                                                            period |-> monitor.options.reportInterval]}
                                             ELSE @,
                                  !.nextTimer = IF timed THEN @ + 1 ELSE @,
                                  !.loadListeners = @ + 1,
                                  !.last = "start"]
  /\ UNCHANGED <<analysis, chat, employees, aiChat>>

\* observer.disconnect() for every observer of this.observers
Disconnected(observing, observers) ==
  SelectSeq(observing, LAMBDA type : type \notin Range(observers))

\* PerformanceMonitor.stop
Stop ==
  /\ IF ~monitor.isRunning
     THEN /\ browser' = [browser EXCEPT !.last = "stop"]
          /\ UNCHANGED monitor
     ELSE /\ monitor' = [monitor EXCEPT
                          !.isRunning = FALSE, !.observers = <<>>, !.reportTimer = None]
          /\ browser' = [browser EXCEPT
                          !.observing = Disconnected(@, monitor.observers),
                          !.timers = IF IsSome(monitor.reportTimer)
                                     THEN {t \in @ : t.id # Get(monitor.reportTimer)} ELSE @,
                          !.visibilityListener = FALSE,
                          !.last = "stop"]
  /\ UNCHANGED <<analysis, chat, employees, aiChat>>

\* reportMetrics: one 'performance-report' event
Reported(b, event) == [b EXCEPT !.reports = @ + 1, !.last = event]

\* an interval set by start fires: reportMetrics
TimerFires ==
  /\ browser.timers # {}
  /\ browser.reports < MaxReports
  /\ browser' = Reported(browser, "timer")
  /\ UNCHANGED <<analysis, monitor, chat, employees, aiChat>>

\* the page becomes hidden or visible: handleVisibilityChange, if attached
VisibilityChanges ==
  /\ browser.reports < MaxReports
  /\ LET state == IF browser.visibilityState = "visible" THEN "hidden" ELSE "visible"
         b == [browser EXCEPT !.visibilityState = state, !.last = "visibilitychange"]
     IN  browser' = IF browser.visibilityListener /\ state = "hidden"
                    THEN Reported(b, "visibilitychange") ELSE b
  /\ UNCHANGED <<analysis, monitor, chat, employees, aiChat>>

\* monitor.reportMetrics() called by the page
ReportMetricsCalled ==
  /\ browser.reports < MaxReports
  /\ browser' = Reported(browser, "reportMetrics")
  /\ UNCHANGED <<analysis, monitor, chat, employees, aiChat>>

\* a connected observer is handed an entry: recordMetric
ObserverNotified ==
  /\ browser.observing # <<>>
  /\ monitor.metrics < MaxMetrics
  /\ monitor' = [monitor EXCEPT !.metrics = @ + 1]
  /\ browser' = [browser EXCEPT !.last = "entry"]
  /\ UNCHANGED <<analysis, chat, employees, aiChat>>

\* window 'load': every closure added by measureNavigationTiming sets a
\* timeout
PageLoads ==
  /\ ~browser.loaded
  /\ browser' = [browser EXCEPT !.loaded = TRUE, !.timeouts = @ + browser.loadListeners,
                                 !.last = "load"]
  /\ UNCHANGED <<analysis, monitor, chat, employees, aiChat>>

NavigationMetrics == 5

\* the timeout of measureNavigationTiming: five metrics, if there is a
\* navigation entry
TimeoutRuns ==
  /\ browser.timeouts > 0
  /\ browser' = [browser EXCEPT !.timeouts = @ - 1, !.last = "timeout"]
  /\ monitor' = [monitor EXCEPT
                   !.metrics = IF browser.hasNavigation THEN @ + NavigationMetrics ELSE @]
  /\ UNCHANGED <<analysis, chat, employees, aiChat>>

\* the analysis runner is not part of a page or of the server
NoAnalysis ==
  /\ options = None
  /\ env = None
  /\ pc = "none"
  /\ perf = None
  /\ bundle = None
  /\ results = None
  /\ written = {}
  /\ stderr = <<>>
  /\ topRecs = None
  /\ ran = <<>>
  /\ exitCode = None

GivenIntervals == {None, Some(0), Some(0 - 1), Some(1000)}

Pages ==
  {NewBrowser(TRUE, {}, TRUE), NewBrowser(TRUE, {"longtask"}, TRUE), NewBrowser(FALSE, {}, FALSE)}

InitMonitor ==
  /\ NoAnalysis
  /\ \E interval \in GivenIntervals, all \in BOOLEAN :
       monitor = NewMonitor([reportInterval |-> interval, enableWebVitals |-> all,
                             enableResourceTiming |-> TRUE, enableLongTasks |-> all])
  /\ browser \in Pages
  /\ chat = None
  /\ employees = None
  /\ aiChat = None

NextMonitor ==
  \/ Start
  \/ Stop
  \/ TimerFires
  \/ VisibilityChanges
  \/ ReportMetricsCalled
  \/ ObserverNotified
  \/ PageLoads
  \/ TimeoutRuns

SpecMonitor == InitMonitor /\ [][NextMonitor]_vars

HandlersAttached ==
  Len(browser.observing) + Cardinality(browser.timers) + browser.loadListeners
  + (IF browser.visibilityListener THEN 1 ELSE 0)

\* C28: after stop() the monitor is quiescent: isRunning false, observers
\* empty, reportTimer cleared, no handler registered by start() still
\* attached, and while it stays stopped no metric is recorded and no report
\* dispatched by a handler of the monitor.
C28_StoppedMonitorQuiescent ==
  /\ [](browser.last = "stop" =>
          /\ ~monitor.isRunning
          /\ monitor.observers = <<>>
          /\ monitor.reportTimer = None
          /\ HandlersAttached = 0)
  /\ [][(~monitor.isRunning /\ ~monitor'.isRunning /\ browser'.last # "reportMetrics") =>
          (monitor'.metrics = monitor.metrics /\ browser'.reports = browser.reports)]_vars

NoDuplicates(seq) == \A i, j \in 1..Len(seq) : seq[i] = seq[j] => i = j

\* C29: a start() while the monitor is running changes nothing of the
\* monitor or of what it has registered, and at any time there is at most
\* one report timer and at most one connected observer for an entry type.
C29_StartIdempotentWhileRunning ==
  /\ [](Cardinality(browser.timers) <= 1 /\ NoDuplicates(browser.observing)
         /\ NoDuplicates(monitor.observers))
  /\ [][(monitor.isRunning /\ browser'.last = "start") =>
          (monitor' = monitor /\ browser' = [browser EXCEPT !.last = "start"])]_vars

\* start() was called again while running, after a handler had recorded a
\* metric
C29_Witness ==
  /\ monitor.isRunning
  /\ browser.last = "start"
  /\ Starts = 1
  /\ monitor.metrics > MeasuredAtStart(monitor, browser)
  /\ Cardinality(browser.timers) = 1
  /\ Len(browser.observing) = 5

GivenInterval == monitor.given.reportInterval

\* C30: a monitor constructed with a reportInterval of 0 or less never has a
\* report timer, and its reports come only from a visibility change to
\* hidden or from a call of reportMetrics; a positive reportInterval is the
\* period of the timer start() sets.
C30_NonPositiveIntervalStartsNoTimer ==
  /\ [](IsSome(GivenInterval) =>
          /\ Get(GivenInterval) <= 0 => (browser.timers = {} /\ monitor.reportTimer = None)
          /\ Get(GivenInterval) > 0 =>
               /\ \A t \in browser.timers : t.period = Get(GivenInterval)
               /\ monitor.isRunning => browser.timers # {})
  /\ [][(IsSome(GivenInterval) /\ Get(GivenInterval) <= 0
          /\ browser'.reports # browser.reports) =>
            \/ browser'.last = "reportMetrics"
            \/ browser'.last = "visibilitychange" /\ browser'.visibilityState = "hidden"]_vars

\* a running monitor constructed with reportInterval 0, without a timer,
\* that has reported on the page becoming hidden
C30_Witness ==
  /\ GivenInterval = Some(0)
  /\ monitor.isRunning
  /\ browser.timers = {}
  /\ browser.reports > 0
  /\ browser.last = "visibilitychange"
  /\ browser.visibilityState = "hidden"

(***************************************************************************)
(* The Chat page (client/src/pages/Chat.js): the component state and the   *)
(* handlers of the input, the send button, the clear button and the        *)
(* pending request                                                         *)
(***************************************************************************)
ChatMessage(kind, request) == [kind |-> kind, request |-> request]

\* the message of the initial state and of clearChat
Greeting == ChatMessage("greeting", 0)

\* String.prototype.trim on the texts of the model
Trim(text) == IF text = " " THEN "" ELSE text

Texts == {"", " ", "hello", "How many employees do we have?"}

MaxSends == 3

NewChat == [messages |-> <<Greeting>>, newMessage |-> "", isLoading |-> FALSE,
            inFlight |-> None, sent |-> 0]

\* onChange of the text field, which is disabled while isLoading
SetNewMessage ==
  /\ ~chat.isLoading
  /\ \E text \in Texts : chat' = [chat EXCEPT !.newMessage = text]
  /\ UNCHANGED <<analysis, monitor, browser, employees, aiChat>>

\* handleSendMessage up to the await of axios.post
HandleSendMessage ==
  /\ Trim(chat.newMessage) # ""
  /\ ~chat.isLoading
  /\ chat.sent < MaxSends
  /\ LET request == chat.sent + 1
     IN  chat' = [chat EXCEPT
                    !.messages = @ \o <<ChatMessage("user", request), ChatMessage("loading", request)>>,
                    !.newMessage = "",
                    !.isLoading = TRUE,
                    !.inFlight = Some(request),
                    !.sent = request]
  /\ UNCHANGED <<analysis, monitor, browser, employees, aiChat>>

\* prev => [...prev.slice(0, -1), reply]
ReplaceLast(messages, reply) ==
  (IF messages = <<>> THEN <<>> ELSE SubSeq(messages, 1, Len(messages) - 1)) \o <<reply>>

\* handleSendMessage after the await: the try or the catch branch, then
\* finally
RequestSettles ==
  /\ IsSome(chat.inFlight)
  /\ \E kind \in {"ai", "error"} :
       chat' = [chat EXCEPT
                  !.messages = ReplaceLast(@, ChatMessage(kind, Get(chat.inFlight))),
                  !.isLoading = FALSE,
                  !.inFlight = None]
  /\ UNCHANGED <<analysis, monitor, browser, employees, aiChat>>

\* clearChat, on the click of the clear button, which is never disabled
ClearChat ==
  /\ chat' = [chat EXCEPT !.messages = <<Greeting>>]
  /\ UNCHANGED <<analysis, monitor, browser, employees, aiChat>>

InitChat ==
  /\ NoAnalysis
  /\ chat = NewChat
  /\ monitor = None
  /\ browser = None
  /\ employees = None
  /\ aiChat = None

NextChat == SetNewMessage \/ HandleSendMessage \/ RequestSettles \/ ClearChat

SpecChat == InitChat /\ [][NextChat]_vars

Without(messages, message) == SelectSeq(messages, LAMBDA m : m # message)

\* C27: when the request settles, the reply takes the place of the loading
\* placeholder of that request and no other message is removed; afterwards
\* no message is loading and the greeting is still the first message,
\* whatever the user did while the request was pending.
C27_ReplyReplacesPlaceholder ==
  [][(IsSome(chat.inFlight) /\ chat'.inFlight = None) =>
       LET request == Get(chat.inFlight)
           after == chat'.messages
       IN  /\ Last(after).kind \in {"ai", "error"}
           /\ Last(after).request = request
           /\ SubSeq(after, 1, Len(after) - 1) =
                Without(chat.messages, ChatMessage("loading", request))
           /\ \A k \in 1..Len(after) : after[k].kind # "loading"
           /\ after[1] = Greeting]_vars

(***************************************************************************)
(* /api/employees (server/routes/employees.js) over the Employee           *)
(* collection (models/Employee.js): concurrent POST handlers, each         *)
(* suspended at its awaits, and DELETE                                     *)
(***************************************************************************)
\* trim() of the validator and of the schema, on the ids of the model
TrimId(id) == IF id = " E1" THEN "E1" ELSE id

\* normalizeEmail() of the validator and lowercase of the schema, on the
\* addresses of the model
NormalizeEmail(email) == IF email = "A@x.com" THEN "a@x.com" ELSE email

IsEmail(email) == email \in {"a@x.com", "A@x.com", "b@x.com"}

\* req.body after the validation chain has run: [valid, body]
Sanitized(raw) ==
  [valid |-> raw.employeeId # "" /\ IsEmail(raw.email),
   body |-> [employeeId |-> TrimId(raw.employeeId), email |-> NormalizeEmail(raw.email),
             department |-> raw.department]]

Bodies ==
  {[employeeId |-> "E1", email |-> "a@x.com", department |-> "Sales"],
   [employeeId |-> " E1", email |-> "b@x.com", department |-> "Sales"],
   [employeeId |-> "E2", email |-> "A@x.com", department |-> "Support"],
   [employeeId |-> "E2", email |-> "b@x.com", department |-> "Support"],
   [employeeId |-> "E3", email |-> "nobody", department |-> "Support"]}

MaxPosts == 2
MaxDeletes == 1
UnknownId == 99
MalformedId == 0

NewEmployees ==
  [store |-> {},        \* the documents of the collection
   posts |-> <<>>,      \* the POST requests: [body, pc, status, message]
   deleted |-> <<>>,    \* the DELETE requests answered: [id, status]
   now |-> 1]           \* the clock of the timestamps, also the next _id

\* Employee.findOne({ $or: [{ employeeId }, { email }] })
FindOne(store, body) ==
  {e \in store : e.employeeId = body.employeeId \/ e.email = body.email}

\* router.post('/') up to the await of findOne
PostReceived ==
  /\ Len(employees.posts) < MaxPosts
  /\ \E raw \in Bodies :
       LET req == Sanitized(raw)
       IN  employees' = [employees EXCEPT !.posts = Append(@,
             IF req.valid
             THEN [body |-> req.body, pc |-> "findOne", status |-> 0, message |-> ""]
             ELSE [body |-> req.body, pc |-> "done", status |-> 400, message |-> "errors"])]
  /\ UNCHANGED <<analysis, monitor, browser, chat, aiChat>>

\* findOne resolves: 400 when a document matches, else on to save
PostFindOne ==
  /\ \E i \in 1..Len(employees.posts) :
       /\ employees.posts[i].pc = "findOne"
       /\ employees' = [employees EXCEPT !.posts[i] =
             IF FindOne(employees.store, @.body) # {}
             THEN [@ EXCEPT !.pc = "done", !.status = 400,
                            !.message = "Employee with this ID or email already exists"]
             ELSE [@ EXCEPT !.pc = "save"]]
  /\ UNCHANGED <<analysis, monitor, browser, chat, aiChat>>

\* new Employee(req.body): the defaults of the schema and the timestamps
NewEmployee(body, now) ==
  [id |-> now, employeeId |-> body.employeeId, email |-> body.email,
   department |-> body.department, status |-> "active", createdAt |-> now, updatedAt |-> now]

\* employee.save() resolves, 201, or rejects on a unique index of the
\* schema (employeeId, email), which the catch answers with 500
PostSave ==
  /\ \E i \in 1..Len(employees.posts) :
       /\ employees.posts[i].pc = "save"
       /\ LET body == employees.posts[i].body
          IN  IF FindOne(employees.store, body) # {}
              THEN employees' = [employees EXCEPT
                     !.posts[i] = [@ EXCEPT !.pc = "done", !.status = 500,
                                            !.message = "Server error while creating employee"]]
              ELSE employees' = [employees EXCEPT
                     !.store = @ \cup {NewEmployee(body, employees.now)},
                     !.now = @ + 1,
                     !.posts[i] = [@ EXCEPT !.pc = "done", !.status = 201,
                                            !.message = "Employee created successfully"]]
  /\ UNCHANGED <<analysis, monitor, browser, chat, aiChat>>

\* a bug that removes the document
FindByIdAndRemove(store, id, now) == {e \in store : e.id # id}

\* Employee.findByIdAndUpdate(id, { status: 'terminated' }, { new: true })
\* on a schema with timestamps: the update also sets updatedAt
FindByIdAndUpdate(store, id, now) ==
  {IF e.id = id THEN [e EXCEPT !.status = "terminated", !.updatedAt = now] ELSE e : e \in store}

\* the cast of req.params.id to the ObjectId of _id, which throws on a
\* string that is no ObjectId
IsObjectId(id) == id > 0

\* router.delete('/:id')
Delete ==
  /\ Len(employees.deleted) < MaxDeletes
  /\ \E id \in {e.id : e \in employees.store} \cup {UnknownId, MalformedId} :
       IF ~IsObjectId(id)
       THEN employees' = [employees EXCEPT !.deleted = Append(@, [id |-> id, status |-> 500])]
       ELSE IF \E e \in employees.store : e.id = id
       THEN employees' = [employees EXCEPT
              !.store = FindByIdAndUpdate(@, id, employees.now),
              !.now = @ + 1,
              !.deleted = Append(@, [id |-> id, status |-> 200])]
       ELSE employees' = [employees EXCEPT !.deleted = Append(@, [id |-> id, status |-> 404])]
  /\ UNCHANGED <<analysis, monitor, browser, chat, aiChat>>

\* router.get('/:id'): the document, or none (404)
GetById(store, id) == {e \in store : e.id = id}

\* router.get('/') with the default query: status = 'active'
GetAll(store) == {e \in store : e.status = "active"}

\* router.get('/stats/overview'): totalEmployees and the departments counted
StatsOverview(store) ==
  [totalEmployees |-> Cardinality({e \in store : e.status = "active"}),
   counted |-> {e \in store : e.status = "active"}]

InitEmployees ==
  /\ NoAnalysis
  /\ employees = NewEmployees
  /\ monitor = None
  /\ browser = None
  /\ chat = None
  /\ aiChat = None

NextEmployees == PostReceived \/ PostFindOne \/ PostSave \/ Delete

SpecEmployees == InitEmployees /\ [][NextEmployees]_vars

Responds(i) == employees.posts[i].pc # "done" /\ employees'.posts[i].pc = "done"

\* C26: under every interleaving of POST requests, a request whose
\* employeeId or email is held by a stored employee when it is answered
\* gets 400 'Employee with this ID or email already exists', and no two
\* stored employees share an employeeId or an email.
C26_DuplicateAnswered400 ==
  /\ [](\A e, f \in employees.store :
          (e.employeeId = f.employeeId \/ e.email = f.email) => e = f)
  /\ [][\A i \in 1..Len(employees.posts) :
          (Responds(i) /\ FindOne(employees.store, employees.posts[i].body) # {}) =>
            /\ employees'.posts[i].status = 400
            /\ employees'.posts[i].message = "Employee with this ID or email already exists"]_vars

Deletes == Len(employees'.deleted) = Len(employees.deleted) + 1

Terminated(e) == [e EXCEPT !.status = "terminated"]

IgnoringUpdatedAt(store) == {[e EXCEPT !.updatedAt = 0] : e \in store}

\* a terminated employee is returned by GET /:id and is not in GET / under
\* the default filter nor in the statistics
TerminatedStillStored ==
  \A e \in employees.store :
    e.status = "terminated" =>
      /\ GetById(employees.store, e.id) = {e}
      /\ e \notin GetAll(employees.store)
      /\ e \notin StatsOverview(employees.store).counted
      /\ StatsOverview(employees.store).totalEmployees < Cardinality(employees.store)

NeverRemoves == {e.id : e \in employees.store} \subseteq {e.id : e \in employees'.store}

\* the answer of the DELETE request that this step completes
Answered == Last(employees'.deleted)

\* C25 as stated: DELETE never removes a record; for an existing id it sets
\* status to 'terminated' and leaves every other field unchanged, after
\* which GET /:id still returns the record and GET / and the statistics do
\* not; for an unknown id it answers 404 and changes nothing.
C25_SoftDeleteChangesStatusOnly ==
  /\ []TerminatedStillStored
  /\ [][NeverRemoves]_vars
  /\ [][Deletes =>
          LET found == GetById(employees.store, Answered.id)
          IN  IF found # {}
              THEN /\ Answered.status = 200
                   /\ employees'.store =
                        (employees.store \ found) \cup {Terminated(e) : e \in found}
              ELSE /\ Answered.status = 404
                   /\ employees'.store = employees.store]_vars

\* C25 amended: as stated, except that the updatedAt timestamp of the record
\* changes with its status, and that 404 answers the ids that are
\* well-formed: an id that is no ObjectId is answered 500, nothing changed.
C25_SoftDeleteChangesStatusAndUpdatedAt ==
  /\ []TerminatedStillStored
  /\ [][NeverRemoves]_vars
  /\ [][Deletes =>
          LET found == GetById(employees.store, Answered.id)
          IN  IF found # {}
              THEN /\ Answered.status = 200
                   /\ Cardinality(employees'.store) = Cardinality(employees.store)
                   /\ IgnoringUpdatedAt(employees'.store) =
                        IgnoringUpdatedAt((employees.store \ found)
                                          \cup {Terminated(e) : e \in found})
              ELSE /\ Answered.status = IF IsObjectId(Answered.id) THEN 404 ELSE 500
                   /\ employees'.store = employees.store]_vars

\* one of two stored employees was deleted: it is terminated and still
\* stored, the other is the only one listed
C25_Witness ==
  /\ Cardinality(employees.store) = 2
  /\ employees.deleted # <<>>
  /\ Last(employees.deleted).status = 200
  /\ \E e \in employees.store :
       /\ e.id = Last(employees.deleted).id
       /\ e.status = "terminated"
       /\ GetAll(employees.store) = employees.store \ {e}

\* ---------------------------------------------------------------------
\* router.post('/ai-chat'): the chat route of the server
\* ---------------------------------------------------------------------

MaxChatRequests == 2

\* the message of req.body after trim(): empty, plain, or about employees
ChatBodies == {"", "hello", "how many employees"}

\* what openai.chat.completions.create resolves to or rejects with
CompletionOutcomes == {"ok", "insufficient_quota", "invalid_api_key", "error"}

NewAiChat ==
  [messages |-> {},     \* the ChatMessage collection: [request, messageType]
   requests |-> <<>>]   \* the requests: [message, pc, calls, outcome, status, text]

\* the catch of the handler: the answer to a rejection with this code
Catch(request, code) ==
  [request EXCEPT
     !.pc = "done",
     !.status = IF code = "insufficient_quota" THEN 429 ELSE 500,
     !.text = IF code = "insufficient_quota"
              THEN "AI service quota exceeded. Please try again later."
              ELSE IF code = "invalid_api_key"
              THEN "AI service configuration error."
              ELSE "Server error while processing AI request"]

\* validationResult(req) and the 400 of an empty message
AiChatReceived ==
  /\ Len(aiChat.requests) < MaxChatRequests
  /\ \E message \in ChatBodies :
       aiChat' = [aiChat EXCEPT !.requests = Append(@,
                    [message |-> message, calls |-> 0, outcome |-> "none",
                     pc |-> IF message = "" THEN "done" ELSE "saveUser",
                     status |-> IF message = "" THEN 400 ELSE 0,
                     text |-> ""])]
  /\ UNCHANGED <<analysis, monitor, browser, chat, employees>>

\* await userMessage.save()
AiChatSaveUser ==
  /\ \E i \in 1..Len(aiChat.requests), saved \in BOOLEAN :
       /\ aiChat.requests[i].pc = "saveUser"
       /\ aiChat' = IF saved
                    THEN [aiChat EXCEPT
                            !.messages = @ \cup {[request |-> i, messageType |-> "user"]},
                            !.requests[i] = [@ EXCEPT !.pc = "context"]]
                    ELSE [aiChat EXCEPT !.requests[i] = Catch(@, "error")]
  /\ UNCHANGED <<analysis, monitor, browser, chat, employees>>

\* await ChatMessage.find({ room }) and, for a message about employees,
\* the two Employee queries
AiChatContext ==
  /\ \E i \in 1..Len(aiChat.requests), found \in BOOLEAN :
       /\ aiChat.requests[i].pc = "context"
       /\ aiChat' = [aiChat EXCEPT !.requests[i] =
                       IF found THEN [@ EXCEPT !.pc = "call"] ELSE Catch(@, "error")]
  /\ UNCHANGED <<analysis, monitor, browser, chat, employees>>

\* a handler that would call the completion endpoint again after a failure
AfterCompletionRetrying(request, outcome) ==
  IF outcome = "ok"
  THEN [request EXCEPT !.calls = @ + 1, !.outcome = outcome, !.pc = "saveAi"]
  ELSE IF request.calls = 0
  THEN [request EXCEPT !.calls = @ + 1, !.outcome = outcome]
  ELSE Catch([request EXCEPT !.calls = @ + 1, !.outcome = outcome], outcome)

\* the request after await openai.chat.completions.create(...) settles
AfterCompletion(request, outcome) ==
  IF outcome = "ok"
  THEN [request EXCEPT !.calls = @ + 1, !.outcome = outcome, !.pc = "saveAi"]
  ELSE Catch([request EXCEPT !.calls = @ + 1, !.outcome = outcome], outcome)

\* const completion = await openai.chat.completions.create(...)
AiChatCompletion ==
  /\ \E i \in 1..Len(aiChat.requests), outcome \in CompletionOutcomes :
       /\ aiChat.requests[i].pc = "call"
       /\ aiChat' = [aiChat EXCEPT !.requests[i] = AfterCompletion(@, outcome)]
  /\ UNCHANGED <<analysis, monitor, browser, chat, employees>>

\* await aiMessage.save() and res.json(...)
AiChatSaveAi ==
  /\ \E i \in 1..Len(aiChat.requests), saved \in BOOLEAN :
       /\ aiChat.requests[i].pc = "saveAi"
       /\ aiChat' = IF saved
                    THEN [aiChat EXCEPT
                            !.messages = @ \cup {[request |-> i, messageType |-> "ai"]},
                            !.requests[i] = [@ EXCEPT !.pc = "done", !.status = 200,
                                               !.text = "AI response generated successfully"]]
                    ELSE [aiChat EXCEPT !.requests[i] = Catch(@, "error")]
  /\ UNCHANGED <<analysis, monitor, browser, chat, employees>>

InitAiChat ==
  /\ NoAnalysis
  /\ aiChat = NewAiChat
  /\ monitor = None
  /\ browser = None
  /\ chat = None
  /\ employees = None

NextAiChat ==
  AiChatReceived \/ AiChatSaveUser \/ AiChatContext \/ AiChatCompletion \/ AiChatSaveAi

SpecAiChat == InitAiChat /\ [][NextAiChat]_vars

\* the completion call of the request was made and rejected
CallFailed(request) == request.calls > 0 /\ request.outcome # "ok"

\* C24: every request makes at most one completion call; a request whose
\* call failed has ended with 429 or 500, has no AI ChatMessage, and its
\* user message is still stored; a stored message is never removed.
C24_OneCallNoAiMessageOnFailure ==
  /\ [](\A i \in 1..Len(aiChat.requests) :
          LET request == aiChat.requests[i]
          IN  /\ request.calls <= 1
              /\ CallFailed(request) =>
                   /\ request.pc = "done"
                   /\ request.status \in {429, 500}
                   /\ request.status = 429 <=> request.outcome = "insufficient_quota"
                   /\ [request |-> i, messageType |-> "ai"] \notin aiChat.messages
                   /\ [request |-> i, messageType |-> "user"] \in aiChat.messages)
  /\ [][aiChat.messages \subseteq aiChat'.messages]_vars

\* two requests in flight: the call of the first hit the quota and was
\* answered 429, the second was answered 200 with its AI message saved
C24_Witness ==
  /\ Len(aiChat.requests) = 2
  /\ aiChat.requests[1].outcome = "insufficient_quota"
  /\ aiChat.requests[1].status = 429
  /\ aiChat.requests[1].calls = 1
  /\ aiChat.requests[2].status = 200
  /\ aiChat.messages = {[request |-> 1, messageType |-> "user"],
                        [request |-> 2, messageType |-> "user"],
                        [request |-> 2, messageType |-> "ai"]}

====
